---- MODULE Spec2Model ----
(***************************************************************************)
(* A model of the file-mutation subsystem of autonomous_code_assistant:    *)
(*   file_operations/writer.py  (FileWriter: atomic write with sibling     *)
(*                               backup and restore on failure)            *)
(*   file_operations/backup.py  (BackupManager: timestamped backups,       *)
(*                               retention, restore, path inference)       *)
(* File contents are sequences of characters / bytes, file names are       *)
(* sequences of characters, so that naming, parsing and text conversion    *)
(* are computed the way the code computes them.                            *)
(***************************************************************************)
EXTENDS Integers, Sequences, FiniteSets, TLC

VARIABLES
    (* ---- FileWriter (writer.py) ---- *)
    osName,          \* os.name of the running interpreter: "posix" or "nt"
    create_backups,  \* FileWriter.create_backups
    parent_exists,   \* filepath.parent exists as a directory
    target,          \* the file at filepath
    siblings,        \* files at filepath+".bak", filepath+".bak.1", ...
    temp,            \* the file mkstemp made for the running call
    pc,              \* position of the running write_file call
    content,         \* argument of the running write_file call
    backup_path,     \* local backup_path of write_file (index of a sibling, or None)
    prior,           \* target as it was when the running call started
    failed,          \* the step whose exception is being handled ("none" if none)
    result,          \* how the last write_file call ended
    calls,           \* number of write_file calls started
    (* ---- BackupManager (backup.py) ---- *)
    disk,            \* user files: set of [path, data]
    dirs,            \* existing directories (sequences of components)
    store,           \* files of backup_dir: set of [name, data, ctime, orig]
    now,             \* wall clock, seconds since midnight
    copies,          \* number of copy operations done (orders st_ctime)
    edits,           \* number of changes the user made to files
    restores,        \* number of restore_backup calls made
    last,            \* the last BackupManager call and how it ended
    streak,          \* backups made by the successful create_backup calls in a row on last.filepath
    (* ---- queries of BackupManager, CodeAssistant._apply_changes_to_file ---- *)
    ret,             \* return value of the last query of BackupManager
    skipped,         \* backup files whose stat() failed in the last listing
    cutoff_time,     \* cutoff_time of the last cleanup_old_backups call
    applying,        \* the running or last _apply_changes_to_file call
    (* ---- FileReader.is_text_file (reader.py) ---- *)
    probe_path,      \* the filepath argument of is_text_file
    probe_file,      \* what is at that path: [kind, data]
    mime_db,         \* the MIME table mimetypes loaded on this platform
    is_text,         \* how the is_text_file call ended
    (* ---- CodeAssistant.analyze_project (core.py) ---- *)
    tree,            \* what is below project_root: set of [name, kind, text]
    ignore_patterns, \* the patterns FileReader._ignore_spec was compiled from
    files,           \* local files of analyze_project: the enumerated paths
    analysis,        \* what the analyze_project call returned
    (* ---- CodeAnalyzer (analyzer.py) ---- *)
    source,          \* the arguments of the analyzer call and the file at filepath
    classified,      \* the analyzer call made and how it ended
    (* ---- CodeAssistant.process_instruction (core.py) ---- *)
    instr            \* the running or last process_instruction call

wvars == <<osName, create_backups, parent_exists, target, siblings, temp, pc,
           content, backup_path, prior, failed, result, calls>>
bvars == <<disk, dirs, store, now, copies, edits, restores, last, streak>>
qvars == <<ret, skipped, cutoff_time, applying>>
svars == <<probe_path, probe_file, mime_db, is_text>>
pvars == <<tree, ignore_patterns, files, analysis>>
cvars == <<source, classified>>
ivars == <<instr>>
xvars == <<svars, pvars, cvars, ivars>>
vars == <<wvars, bvars, qvars, xvars>>

(***************************************************************************)
(* Bounds of the model.                                                    *)
(***************************************************************************)
MaxCalls == 2       \* write_file calls per behaviour
MaxClock == 1       \* seconds the wall clock may advance
MaxCopies == 2      \* backup copies per behaviour
MaxEdits == 1       \* changes the user makes to files per behaviour
MaxRestores == 1    \* restore_backup calls per behaviour
MaxDays == 1        \* days the wall clock may advance
DetectSample == 8    \* lexemes detect_language reads of a file (f.read(8192))
MaxLines == 2        \* lines of an analysed text
SampleSize == 2     \* bytes the content probe reads (f.read(8192), scaled down)

(***************************************************************************)
(* Text input/output of Python: open(..., 'w') and open(..., 'r') with the *)
(* default newline=None.                                                   *)
(***************************************************************************)
LF == "LF"
CR == "CR"

\* os.linesep
linesep(os) == IF os = "nt" THEN <<CR, LF>> ELSE <<LF>>

\* f.write(content) on a text-mode file: every "\n" becomes os.linesep
RECURSIVE TextWrite(_, _)
TextWrite(s, os) ==
    IF s = <<>> THEN <<>>
    ELSE (IF Head(s) = LF THEN linesep(os) ELSE <<Head(s)>>) \o TextWrite(Tail(s), os)

\* f.read() on a text-mode file: "\r\n" and a lone "\r" are read as "\n"
RECURSIVE TextRead(_)
TextRead(b) ==
    IF b = <<>> THEN <<>>
    ELSE IF Head(b) = CR
         THEN <<LF>> \o TextRead(IF Len(b) >= 2 /\ b[2] = LF THEN Tail(Tail(b)) ELSE Tail(b))
         ELSE <<Head(b)>> \o TextRead(Tail(b))

Prefixes(s) == {SubSeq(s, 1, n) : n \in 0..Len(s)}

(***************************************************************************)
(* Files.                                                                  *)
(***************************************************************************)
Missing == [ex |-> FALSE, data |-> <<>>]
File(d) == [ex |-> TRUE, data |-> d]
None == -1

\* contents write_file is called with
Contents == {<<"a">>, <<"a", LF>>, <<CR, LF>>}
\* bytes a file may hold before the first call
OldBytes == {<<"o">>}

(***************************************************************************)
(* Paths and file names (pathlib) as BackupManager uses them.  A name is a *)
(* sequence of characters; a path is a directory (sequence of components;  *)
(* <<>> is a bare relative name) and a name.                               *)
(***************************************************************************)
Path(d, n) == [dir |-> d, name |-> n]

\* str.rfind, 1-based, 0 when absent
RFind(s, ch) ==
    IF \E i \in 1..Len(s) : s[i] = ch
    THEN CHOOSE i \in 1..Len(s) : s[i] = ch /\ \A j \in (i + 1)..Len(s) : s[j] # ch
    ELSE 0

\* PurePath.suffix of a name: from the last dot, unless that dot is the first
\* or the last character
suffix(n) ==
    LET i == RFind(n, ".") IN
    IF 1 < i /\ i < Len(n) THEN SubSeq(n, i, Len(n)) ELSE <<>>

\* PurePath.stem of a name
stem(n) ==
    LET i == RFind(n, ".") IN
    IF 1 < i /\ i < Len(n) THEN SubSeq(n, 1, i - 1) ELSE n

\* str.split(sep): the parts between the separators, empty parts kept
RECURSIVE split(_, _)
split(s, sep) ==
    IF \A i \in 1..Len(s) : s[i] # sep THEN <<s>>
    ELSE LET i == CHOOSE k \in 1..Len(s) : s[k] = sep /\ \A j \in 1..(k - 1) : s[j] # sep
         IN <<SubSeq(s, 1, i - 1)>> \o split(SubSeq(s, i + 1, Len(s)), sep)

\* sep.join(parts)
RECURSIVE join(_, _)
join(parts, sep) ==
    IF parts = <<>> THEN <<>>
    ELSE IF Len(parts) = 1 THEN parts[1]
    ELSE parts[1] \o <<sep>> \o join(Tail(parts), sep)

Digits == <<"0", "1", "2", "3", "4", "5", "6", "7", "8", "9">>
TwoDigits(n) == <<Digits[(n \div 10) + 1], Digits[(n % 10) + 1]>>

\* timedelta(days=1), in seconds
SecondsPerDay == 86400

\* datetime.now().strftime("%Y%m%d_%H%M%S") at t seconds after midnight of
\* the first day the model runs in
strftime(t) ==
    <<"2", "0", "2", "4", "0", "1">> \o TwoDigits(1 + (t \div SecondsPerDay)) \o <<"_">>
        \o TwoDigits((t \div 3600) % 24) \o TwoDigits((t \div 60) % 60) \o TwoDigits(t % 60)

\* backup_name = f"{filepath.stem}_{timestamp}{filepath.suffix}.bak"
backup_name(p, t) ==
    stem(p.name) \o <<"_">> \o strftime(t) \o suffix(p.name) \o <<".", "b", "a", "k">>

\* BackupManager._infer_original_path
infer_original_path(bname) ==
    LET name == stem(bname)                      \* backup_path.stem: remove .bak
        parts == split(name, "_")
        original_name ==
            IF Len(parts) >= 3
            THEN join(SubSeq(parts, 1, Len(parts) - 2), "_")
                     \o (IF \E i \in 1..Len(name) : name[i] = "." THEN suffix(name) ELSE <<>>)
            ELSE name
    IN Path(<<>>, original_name)

(***************************************************************************)
(* FileWriter.write_file, one step per file-system operation.              *)
(***************************************************************************)
\* sibling backup names: index 0 is filepath+backup_suffix, index i > 0 is
\* that name with ".i" appended
SiblingIdx == 0..(MaxCalls + 1)

NoResult == [kind |-> "none", type |-> "none", operation |-> "none", original_error |-> "none"]
Returned == [kind |-> "returned", type |-> "none", operation |-> "none", original_error |-> "none"]
Raised(t, op, cause) == [kind |-> "raised", type |-> t, operation |-> op, original_error |-> cause]

\* a _create_backup without the while loop: always filepath+backup_suffix
FirstFree_unprobed(sib) == 0

\* the while loop of _create_backup: the first sibling name that is free
FirstFree(sib) == CHOOSE i \in SiblingIdx : ~sib[i].ex /\ \A j \in 0..(i - 1) : sib[j].ex

NoPath == Path(<<>>, <<>>)
NoCall == [op |-> "none", filepath |-> NoPath, backup |-> <<>>, target |-> NoPath,
           inferred |-> FALSE, result |-> NoResult, attempted |-> <<>>, stuck |-> {}]

\* the state of the idle BackupManager part, left alone by the writer
BackupIdle ==
    /\ disk = {}
    /\ dirs = {}
    /\ store = {}
    /\ now = 0
    /\ copies = 0
    /\ edits = 0
    /\ restores = 0
    /\ last = NoCall
    /\ streak = <<>>

NoApply == [pc |-> "idle", filepath |-> NoPath, content |-> <<>>, before |-> Missing,
            create_backup |-> FALSE, backup |-> <<>>, result |-> NoResult]

\* the state of the query part, left alone by the writer
QueryIdle ==
    /\ ret = None
    /\ skipped = {}
    /\ cutoff_time = 0
    /\ applying = NoApply

\* outcome of a call that answers with a boolean
NotCalled == [kind |-> "none", value |-> FALSE]
Answer(b) == [kind |-> "returned", value |-> b]

\* the state of the text sniffer part while it is not used
SnifferIdle ==
    /\ probe_path = NoPath
    /\ probe_file = [kind |-> "missing", data |-> <<>>]
    /\ mime_db = "builtin"
    /\ is_text = NotCalled

\* analyze_project was not called
NotRun == [project_root |-> <<>>]

\* the state of the project scanner part while it is not used
ScanIdle ==
    /\ tree = {}
    /\ ignore_patterns = {}
    /\ files = <<>>
    /\ analysis = NotRun

\* no call of the analyzer
NoSource == [name |-> <<>>, text |-> <<>>, given |-> FALSE, readable |-> FALSE]
NotClassified == [op |-> "none"]

\* the state of the analyzer part while it is not used
ClassifyIdle ==
    /\ source = NoSource
    /\ classified = NotClassified

\* how a process_instruction call ended: CodeAssistantError(message, code)
\* raised, or the result dictionary returned; str(e) of the exception is
\* the message, a sequence of the strings it is put together from
NotEnded == [kind |-> "none", type |-> "none", code |-> "none", message |-> <<>>]
ResultReturned == [kind |-> "returned", type |-> "none", code |-> "none", message |-> <<>>]
CodeAssistantError(message, code) ==
    [kind |-> "raised", type |-> "CodeAssistantError", code |-> code, message |-> message]
str(e) == e.message

\* no call of process_instruction
NoInstruction ==
    [pc |-> "idle", instruction |-> "none", target_file |-> NoPath, create_backup |-> FALSE,
     generated |-> <<>>, provider_calls |-> 0, steps |-> <<>>,
     before |-> [ex |-> FALSE, data |-> <<>>], result |-> NotEnded]

\* the state of the instruction part while it is not used
InstructIdle == instr = NoInstruction

ExtraIdle == SnifferIdle /\ ScanIdle /\ ClassifyIdle /\ InstructIdle

InitWriter ==
    /\ osName \in {"posix", "nt"}
    /\ create_backups \in BOOLEAN
    /\ target \in {Missing} \cup {File(d) : d \in OldBytes}
    /\ parent_exists \in (IF target.ex THEN {TRUE} ELSE BOOLEAN)
    /\ \E stale \in BOOLEAN :
          siblings = [i \in SiblingIdx |->
                         IF i = 0 /\ stale /\ parent_exists THEN File(<<"s">>) ELSE Missing]
    /\ temp = Missing
    /\ pc = "idle"
    /\ content = <<>>
    /\ backup_path = None
    /\ prior = target
    /\ failed = "none"
    /\ result = NoResult
    /\ calls = 0
    /\ BackupIdle
    /\ QueryIdle
    /\ ExtraIdle

\* write_file is entered
write_file(c) ==
    /\ pc = "idle"
    /\ calls < MaxCalls
    /\ calls' = calls + 1
    /\ content' = c
    /\ prior' = target
    /\ backup_path' = None
    /\ failed' = "none"
    /\ result' = NoResult
    /\ temp' = Missing          \* mkstemp will pick a name not used before
    /\ pc' = "mkdir"
    /\ UNCHANGED <<osName, create_backups, parent_exists, target, siblings>>

\* filepath.parent.mkdir(parents=True, exist_ok=True); outside every try
MkdirParents ==
    /\ pc = "mkdir"
    /\ \/ /\ parent_exists' = TRUE
          /\ pc' = "backup"
          /\ UNCHANGED result
       \/ /\ ~parent_exists
          /\ parent_exists' = parent_exists
          /\ result' = Raised("OSError", "none", "none")
          /\ pc' = "done"
    /\ UNCHANGED <<osName, create_backups, target, siblings, temp, content,
                   backup_path, prior, failed, calls>>

\* if self.create_backups and filepath.exists(): backup_path = self._create_backup(filepath)
CreateSiblingBackup ==
    /\ pc = "backup"
    /\ IF create_backups /\ target.ex
       THEN LET i == FirstFree(siblings) IN
            \/ /\ siblings' = [siblings EXCEPT ![i] = target]      \* shutil.copy2
               /\ backup_path' = i
               /\ pc' = "mkstemp"
               /\ UNCHANGED result
            \/ /\ \E part \in Prefixes(target.data) \ {target.data} :
                     siblings' = [siblings EXCEPT ![i] = File(part)]
               /\ result' = Raised("FileOperationError", "backup", "copy2")
               /\ pc' = "done"
               /\ UNCHANGED backup_path
            \/ /\ result' = Raised("FileOperationError", "backup", "copy2")
               /\ pc' = "done"
               /\ UNCHANGED <<siblings, backup_path>>
       ELSE /\ pc' = "mkstemp"
            /\ UNCHANGED <<siblings, backup_path, result>>
    /\ UNCHANGED <<osName, create_backups, parent_exists, target, temp, content,
                   prior, failed, calls>>

\* _write_atomic: tempfile.mkstemp(dir=filepath.parent, ...), before its try
Mkstemp ==
    /\ pc = "mkstemp"
    /\ \/ /\ temp' = File(<<>>)
          /\ pc' = "write"
          /\ UNCHANGED failed
       \/ /\ failed' = "mkstemp"
          /\ pc' = "restore"
          /\ UNCHANGED temp
    /\ UNCHANGED <<osName, create_backups, parent_exists, target, siblings, content,
                   backup_path, prior, result, calls>>

\* _write_atomic: f.write(content); f.flush(); os.fsync(...)
WriteTemp ==
    /\ pc = "write"
    /\ \/ /\ temp' = File(TextWrite(content, osName))
          /\ pc' = IF osName = "nt" THEN "unlink_target" ELSE "move"
          /\ UNCHANGED failed
       \/ /\ \E part \in Prefixes(TextWrite(content, osName)) : temp' = File(part)
          /\ failed' = "write"
          /\ pc' = "unlink_temp"
    /\ UNCHANGED <<osName, create_backups, parent_exists, target, siblings, content,
                   backup_path, prior, result, calls>>

\* _write_atomic: if os.name == 'nt': if filepath.exists(): filepath.unlink()
UnlinkTargetNt ==
    /\ pc = "unlink_target"
    /\ IF target.ex
       THEN \/ /\ target' = Missing
               /\ pc' = "move"
               /\ UNCHANGED failed
            \/ /\ failed' = "unlink_target"
               /\ pc' = "unlink_temp"
               /\ UNCHANGED target
       ELSE /\ pc' = "move"
            /\ UNCHANGED <<target, failed>>
    /\ UNCHANGED <<osName, create_backups, parent_exists, siblings, temp, content,
                   backup_path, prior, result, calls>>

\* _write_atomic: shutil.move(temp_path, str(filepath)), a rename in one directory
MoveTemp ==
    /\ pc = "move"
    /\ \/ /\ target' = temp
          /\ temp' = Missing
          /\ pc' = "cleanup"
          /\ UNCHANGED failed
       \/ /\ failed' = "move"
          /\ pc' = "unlink_temp"
          /\ UNCHANGED <<target, temp>>
    /\ UNCHANGED <<osName, create_backups, parent_exists, siblings, content,
                   backup_path, prior, result, calls>>

\* _write_atomic: except Exception: try: os.unlink(temp_path) except: pass; raise
UnlinkTemp ==
    /\ pc = "unlink_temp"
    /\ \/ temp' = Missing
       \/ temp' = temp
    /\ pc' = "restore"
    /\ UNCHANGED <<osName, create_backups, parent_exists, target, siblings, content,
                   backup_path, prior, failed, result, calls>>

\* write_file: except Exception as e: move the backup back (errors passed over),
\* then raise FileOperationError(operation="write", original_error=e)
RestoreAndRaise ==
    /\ pc = "restore"
    /\ IF backup_path # None /\ siblings[backup_path].ex
       THEN \/ /\ target' = siblings[backup_path]
               /\ siblings' = [siblings EXCEPT ![backup_path] = Missing]
            \/ UNCHANGED <<target, siblings>>
       ELSE UNCHANGED <<target, siblings>>
    /\ result' = Raised("FileOperationError", "write", failed)
    /\ pc' = "done"
    /\ UNCHANGED <<osName, create_backups, parent_exists, temp, content,
                   backup_path, prior, failed, calls>>

\* a write_file in which a failing backup_path.unlink() reaches the caller
unlink_failure_raised == Raised("FileOperationError", "write", "unlink")

\* write_file: try: backup_path.unlink() except Exception: pass
unlink_failure_passed == Returned

\* write_file: on success unlink the backup (errors passed over) and return
CleanupAndReturn ==
    /\ pc = "cleanup"
    /\ IF backup_path # None /\ siblings[backup_path].ex
       THEN \/ /\ siblings' = [siblings EXCEPT ![backup_path] = Missing]
               /\ result' = Returned
            \/ /\ UNCHANGED siblings
               /\ result' = unlink_failure_passed
       ELSE /\ UNCHANGED siblings
            /\ result' = Returned
    /\ pc' = "done"
    /\ UNCHANGED <<osName, create_backups, parent_exists, target, temp, content,
                   backup_path, prior, failed, calls>>

\* the caller takes the outcome; the writer is ready for the next call
Finish ==
    /\ pc = "done"
    /\ pc' = "idle"
    /\ UNCHANGED <<osName, create_backups, parent_exists, target, siblings, temp,
                   content, backup_path, prior, failed, result, calls>>

NextWriter ==
    /\ \/ \E c \in Contents : write_file(c)
       \/ MkdirParents
       \/ CreateSiblingBackup
       \/ Mkstemp
       \/ WriteTemp
       \/ UnlinkTargetNt
       \/ MoveTemp
       \/ UnlinkTemp
       \/ RestoreAndRaise
       \/ CleanupAndReturn
       \/ Finish
    /\ UNCHANGED bvars
    /\ UNCHANGED qvars
    /\ UNCHANGED xvars

SpecWriter == InitWriter /\ [][NextWriter]_vars

(***************************************************************************)
(* BackupManager (backup.py), one action per public method.                *)
(***************************************************************************)
\* BackupManager.max_backups, the cap the model is configured with
max_backups == 1

\* the files BackupManager is called on: a bare name relative to the working
\* directory and the same name in a directory
P_bare == Path(<<>>, <<"t", ".", "p", "y">>)
P_dir == Path(<<"d">>, <<"t", ".", "p", "y">>)
OrigPaths == {P_bare, P_dir}
\* an explicit restore target whose parent directories do not exist yet
T_new == Path(<<"n", "s">>, <<"r">>)
UserBytes == {<<"x">>, <<"y">>}

Exists(d, p) == \E f \in d : f.path = p
Read(d, p) == (CHOOSE f \in d : f.path = p).data
Put(d, p, bytes) == {f \in d : f.path # p} \cup {[path |-> p, data |-> bytes]}
Remove(d, p) == {f \in d : f.path # p}

\* the directories mkdir(parents=True) makes sure of
Ancestors(dir) == {SubSeq(dir, 1, n) : n \in 0..Len(dir)}

StoreNames(st) == {e.name : e \in st}
Entry(st, n) == CHOOSE e \in st : e.name = n

\* the clock is read in ticks, finer than a second: no two file operations
\* of a behaviour fall on the same tick
TicksPerSecond == MaxCopies + 2

\* time.time() / datetime.now() in ticks
Clock == now * TicksPerSecond + copies + 1

\* shutil.copy2(filepath, backup_dir / name): an existing file of that name
\* is overwritten; st_ctime is the time of the last change of the file
CopyToStore(st, n, bytes, orig, done) ==
    {e \in st : e.name # n} \cup
        {[name |-> n, data |-> bytes, orig |-> orig, complete |-> done,
          ctime |-> Clock]}

\* a sort that leaves out reverse=True
RECURSIVE SortOldestFirst(_)
SortOldestFirst(S) ==
    IF S = {} THEN <<>>
    ELSE LET m == CHOOSE e \in S : \A o \in S : e.ctime <= o.ctime
         IN <<m>> \o SortOldestFirst(S \ {m})

\* sorted(backups, key=created, reverse=True)
RECURSIVE SortNewestFirst(_)
SortNewestFirst(S) ==
    IF S = {} THEN <<>>
    ELSE LET m == CHOOSE e \in S : \A o \in S : o.ctime <= e.ctime
         IN <<m>> \o SortNewestFirst(S \ {m})

\* BackupManager.list_backups(filepath); NoPath stands for filepath=None
list_backups(st, filepath) ==
    SortNewestFirst({e \in st : filepath = NoPath \/ infer_original_path(e.name) = filepath})

\* a retention that unlinks the surplus backups oldest first
backups_to_delete_oldest_first(st, filepath) ==
    IF max_backups <= 0 THEN <<>>
    ELSE LET backups == list_backups(st, filepath)
             n == Len(backups) - max_backups
         IN IF n > 0 THEN [i \in 1..n |-> backups[Len(backups) + 1 - i]] ELSE <<>>

\* BackupManager._cleanup_old_backups: the backups it tries to unlink, in order
backups_to_delete(st, filepath) ==
    IF max_backups <= 0 THEN <<>>
    ELSE LET backups == list_backups(st, filepath) IN
         IF Len(backups) > max_backups
         THEN SubSeq(backups, max_backups + 1, Len(backups))
         ELSE <<>>

Range(q) == {q[i] : i \in 1..Len(q)}

Names(q) == [i \in 1..Len(q) |-> q[i].name]

\* the store after _cleanup_old_backups when the unlink of the names in stuck fails
cleanup_old_backups_(st, filepath, stuck) ==
    {e \in st : e \notin Range(backups_to_delete(st, filepath)) \/ e.name \in stuck}

Call(op, fp, b, t, inf, res, att, stuck) ==
    [op |-> op, filepath |-> fp, backup |-> b, target |-> t, inferred |-> inf,
     result |-> res, attempted |-> att, stuck |-> stuck]

WriterIdle ==
    /\ create_backups = TRUE
    /\ parent_exists = TRUE
    /\ target = Missing
    /\ siblings = [i \in SiblingIdx |-> Missing]
    /\ temp = Missing
    /\ pc = "idle"
    /\ content = <<>>
    /\ backup_path = None
    /\ prior = Missing
    /\ failed = "none"
    /\ result = NoResult
    /\ calls = 0

InitBackup ==
    /\ osName = "posix"
    /\ WriterIdle
    /\ \E present \in {OrigPaths, {P_bare}} :
          disk = {[path |-> p, data |-> <<"x">>] : p \in present}
    /\ dirs = {<<>>, <<"d">>}
    /\ store = {}
    /\ now = 0
    /\ copies = 0
    /\ edits = 0
    /\ restores = 0
    /\ last = NoCall
    /\ streak = <<>>
    /\ QueryIdle
    /\ ExtraIdle

\* create_backup on a path that does not exist: raise FileOperationError(
\* "Cannot backup non-existent file", operation="backup"), no original_error
create_backup_missing(filepath) ==
    /\ last' = Call("create_backup", filepath, <<>>, NoPath, FALSE,
                    Raised("FileOperationError", "backup", "none"), <<>>, {})
    /\ streak' = <<>>
    /\ UNCHANGED <<store, copies>>

\* create_backup on an existing path: copy2 into the store, then retention
create_backup_existing(filepath) ==
    LET name == backup_name(filepath, now)
        bytes == Read(disk, filepath)
    IN
    /\ copies < MaxCopies
    /\ copies' = copies + 1
    /\ \/ \* copy2 succeeds, then _cleanup_old_backups runs; the unlink of the
          \* backups in stuck fails and is passed over
          LET copied == CopyToStore(store, name, bytes, filepath, TRUE) IN
          \E stuck \in SUBSET StoreNames(Range(backups_to_delete(copied, filepath))) :
             /\ store' = cleanup_old_backups_(copied, filepath, stuck)
             /\ last' = Call("create_backup", filepath, name, NoPath, FALSE, Returned,
                             Names(backups_to_delete(copied, filepath)), stuck)
             /\ streak' = IF stuck # {} THEN <<>>
                          ELSE (IF last.op = "create_backup" /\ last.filepath = filepath
                                THEN streak ELSE <<>>)
                                   \o <<[name |-> name, data |-> bytes]>>
       \/ \* copy2 fails, before or after it truncated the destination
          /\ \/ UNCHANGED store
             \/ \E part \in Prefixes(bytes) \ {bytes} :
                   store' = CopyToStore(store, name, part, filepath, FALSE)
          /\ last' = Call("create_backup", filepath, name, NoPath, FALSE,
                          Raised("FileOperationError", "backup", "copy2"), <<>>, {})
          /\ streak' = <<>>

\* create_backup without its existence check: copy2 of the missing file fails
create_backup_unchecked(filepath) ==
    /\ IF ~Exists(disk, filepath)
       THEN /\ last' = Call("create_backup", filepath, backup_name(filepath, now), NoPath, FALSE,
                            Raised("FileOperationError", "backup", "copy2"), <<>>, {})
            /\ streak' = <<>>
            /\ UNCHANGED <<store, copies>>
       ELSE create_backup_existing(filepath)
    /\ UNCHANGED <<disk, dirs, now, edits, restores>>
    /\ UNCHANGED wvars

\* BackupManager.create_backup(filepath)
create_backup(filepath) ==
    /\ IF ~Exists(disk, filepath)
       THEN create_backup_missing(filepath)
       ELSE create_backup_existing(filepath)
    /\ UNCHANGED <<disk, dirs, now, edits, restores>>
    /\ UNCHANGED wvars

\* the store after shutil.move(backup, target): the backup leaves the store
source_after_move(st, bname) == {e \in st : e.name # bname}

\* the store after shutil.copy2(backup, target): the backup stays
source_after_copy2(st, bname) == st

\* BackupManager.restore_backup(backup_path, target_path); NoPath stands for
\* target_path=None
restore_backup(bname, target_path) ==
    /\ restores < MaxRestores
    /\ restores' = restores + 1
    /\ IF bname \notin StoreNames(store)
       THEN /\ last' = Call("restore_backup", NoPath, bname, target_path, target_path = NoPath,
                            Raised("FileOperationError", "restore", "none"), <<>>, {})
            /\ UNCHANGED <<disk, dirs, store>>
       ELSE LET tp == IF target_path = NoPath THEN infer_original_path(bname) ELSE target_path
                bytes == Entry(store, bname).data
            IN
            \/ \* mkdir and copy2 succeed
               /\ dirs' = dirs \cup Ancestors(tp.dir)
               /\ disk' = Put(disk, tp, bytes)
               /\ store' = source_after_copy2(store, bname)
               /\ last' = Call("restore_backup", NoPath, bname, tp, target_path = NoPath,
                               Returned, <<>>, {})
            \/ \* mkdir fails
               /\ tp.dir \notin dirs
               /\ UNCHANGED <<disk, dirs, store>>
               /\ last' = Call("restore_backup", NoPath, bname, tp, target_path = NoPath,
                               Raised("FileOperationError", "restore", "mkdir"), <<>>, {})
            \/ \* copy2 fails, before or after it truncated the destination
               /\ dirs' = dirs \cup Ancestors(tp.dir)
               /\ \/ UNCHANGED disk
                  \/ \E part \in Prefixes(bytes) \ {bytes} : disk' = Put(disk, tp, part)
               /\ UNCHANGED store
               /\ last' = Call("restore_backup", NoPath, bname, tp, target_path = NoPath,
                               Raised("FileOperationError", "restore", "copy2"), <<>>, {})
    /\ streak' = <<>>
    /\ UNCHANGED <<now, copies, edits>>
    /\ UNCHANGED wvars

EnvCall == Call("env", NoPath, <<>>, NoPath, FALSE, NoResult, <<>>, {})

\* a second passes
Tick ==
    /\ now < MaxClock
    /\ now' = now + 1
    /\ UNCHANGED <<disk, dirs, store, copies, edits, restores, last, streak>>
    /\ UNCHANGED wvars

\* the user changes a file between two calls
UserEdit(p, bytes) ==
    /\ edits < MaxEdits
    /\ edits' = edits + 1
    /\ Exists(disk, p)
    /\ Read(disk, p) # bytes
    /\ disk' = Put(disk, p, bytes)
    /\ last' = EnvCall
    /\ UNCHANGED <<dirs, store, now, copies, restores, streak>>
    /\ UNCHANGED wvars

NextBackup ==
    /\ \/ \E p \in OrigPaths : create_backup(p)
       \/ \E b \in StoreNames(store) \cup {backup_name(P_bare, 0)}, t \in {NoPath, T_new} :
             restore_backup(b, t)
       \/ Tick
       \/ \E p \in OrigPaths, bytes \in UserBytes : UserEdit(p, bytes)
    /\ UNCHANGED qvars
    /\ UNCHANGED xvars

SpecBackup == InitBackup /\ [][NextBackup]_vars

(***************************************************************************)
(* The queries of BackupManager (list_backups, get_latest_backup,          *)
(* cleanup_old_backups) and CodeAssistant._apply_changes_to_file (core.py),*)
(* which backs a file up in the store and then writes it.                  *)
(***************************************************************************)
\* CodeAssistant.project_root, resolved: the directory of P_dir
project_root == <<"d">>

\* Path.is_absolute: the paths with a directory part are the absolute ones
is_absolute(p) == p.dir # <<>>

\* values of the days argument of cleanup_old_backups
DaysInputs == {0, 1}
\* contents _apply_changes_to_file is called with
NewContents == {<<"n">>}

\* a call that is no query leaves no query result behind
NoQueryResult ==
    /\ ret' = None
    /\ skipped' = {}
    /\ cutoff_time' = 0

\* the files a file-system call fails on during one query: none or one (in
\* cleanup_old_backups either a stat or an unlink fails)
FailureSets(S) == {{}} \cup {{n} : n \in S}

\* list_backups when backup_file.stat() fails on the files named in
\* unreadable: except Exception: continue
list_backups_skipping(st, filepath, unreadable) ==
    list_backups({e \in st : e.name \notin unreadable}, filepath)

\* BackupManager.list_backups(filepath) called from outside
ListBackups(filepath) ==
    /\ applying.pc # "write"
    /\ \E unreadable \in FailureSets(StoreNames(store)) :
          /\ ret' = Names(list_backups_skipping(store, filepath, unreadable))
          /\ skipped' = unreadable
    /\ last' = Call("list_backups", filepath, <<>>, NoPath, FALSE, Returned, <<>>, {})
    /\ streak' = <<>>
    /\ cutoff_time' = 0
    /\ applying' = NoApply
    /\ UNCHANGED <<disk, dirs, store, now, copies, edits, restores>>
    /\ UNCHANGED wvars

\* BackupManager.get_latest_backup(filepath)
get_latest_backup(filepath) ==
    /\ applying.pc # "write"
    /\ \E unreadable \in FailureSets(StoreNames(store)) :
          LET backups == list_backups_skipping(store, filepath, unreadable) IN
          /\ ret' = IF backups # <<>> THEN backups[1].name ELSE None
          /\ skipped' = unreadable
    /\ last' = Call("get_latest_backup", filepath, <<>>, NoPath, FALSE, Returned, <<>>, {})
    /\ streak' = <<>>
    /\ cutoff_time' = 0
    /\ applying' = NoApply
    /\ UNCHANGED <<disk, dirs, store, now, copies, edits, restores>>
    /\ UNCHANGED wvars

\* BackupManager.cleanup_old_backups(filepath, days); the unlink of the
\* backups named in stuck fails and is passed over
cleanup_old_backups(filepath, days) ==
    /\ applying.pc # "write"
    /\ LET cutoff == Clock - days * SecondsPerDay * TicksPerSecond IN
       \E unreadable \in FailureSets(StoreNames(store)) :
          LET backups == list_backups_skipping(store, filepath, unreadable)
              old == SelectSeq(backups, LAMBDA b : b.ctime < cutoff)
          IN \E stuck \in FailureSets(StoreNames(Range(old))) :
                /\ store' = {e \in store : e \notin Range(old) \/ e.name \in stuck}
                /\ ret' = Len(old) - Cardinality(stuck)
                /\ skipped' = unreadable
                /\ unreadable = {} \/ stuck = {}
                /\ cutoff_time' = cutoff
                /\ last' = Call("cleanup_old_backups", filepath, <<>>, NoPath, FALSE,
                                Returned, Names(old), stuck)
    /\ streak' = <<>>
    /\ applying' = NoApply
    /\ UNCHANGED <<disk, dirs, now, copies, edits, restores>>
    /\ UNCHANGED wvars

\* an _apply_changes_to_file that goes on to write when the backup failed
backup_failure_passed(call) == call

\* _apply_changes_to_file when create_backup raised: the except clause
\* raises FileOperationError, the write is not reached
backup_failed(call) ==
    [call EXCEPT !.pc = "done",
                 !.result = Raised("FileOperationError", "apply_changes", "backup")]

\* _apply_changes_to_file up to the backup: the path is made absolute, and
\* if create_backup and filepath.exists() the store backup is made
apply_changes_to_file(fp, c, cb) ==
    LET filepath == IF is_absolute(fp) THEN fp ELSE Path(project_root, fp.name)
        call == [pc |-> "write", filepath |-> filepath, content |-> c,
                 before |-> IF Exists(disk, filepath) THEN File(Read(disk, filepath)) ELSE Missing,
                 create_backup |-> cb, backup |-> <<>>, result |-> NoResult]
    IN
    /\ applying.pc # "write"
    /\ IF cb /\ Exists(disk, filepath)
       THEN /\ create_backup(filepath)
            /\ applying' =
                  IF last'.result.kind = "returned"
                  THEN [call EXCEPT !.backup = last'.backup]
                  ELSE backup_failed(call)
       ELSE /\ applying' = call
            /\ last' = Call("apply_changes", filepath, <<>>, NoPath, FALSE, NoResult, <<>>, {})
            /\ streak' = <<>>
            /\ UNCHANGED <<disk, dirs, store, now, copies, edits, restores>>
            /\ UNCHANGED wvars
    /\ NoQueryResult

\* _apply_changes_to_file: self.file_writer.write_file(filepath, content);
\* any exception becomes FileOperationError(operation="apply_changes").
\* The sibling backup and the temp file of write_file are not files of disk.
write_content ==
    /\ applying.pc = "write"
    /\ \/ /\ disk' = Put(disk, applying.filepath, TextWrite(applying.content, osName))
          /\ dirs' = dirs \cup Ancestors(applying.filepath.dir)
          /\ applying' = [applying EXCEPT !.pc = "done", !.result = Returned]
       \/ /\ \/ UNCHANGED disk
             \/ /\ osName = "nt"
                /\ disk' = Remove(disk, applying.filepath)
          /\ UNCHANGED dirs
          /\ applying' = [applying EXCEPT !.pc = "done",
                              !.result = Raised("FileOperationError", "apply_changes", "write")]
    /\ last' = Call("apply_changes", applying.filepath, applying.backup, NoPath, FALSE,
                    applying'.result, <<>>, {})
    /\ streak' = <<>>
    /\ NoQueryResult
    /\ UNCHANGED <<store, now, copies, edits, restores>>
    /\ UNCHANGED wvars

\* a day passes
NextDay ==
    /\ now < MaxDays * SecondsPerDay
    /\ now' = now + SecondsPerDay
    /\ UNCHANGED <<disk, dirs, store, copies, edits, restores, last, streak>>
    /\ UNCHANGED wvars
    /\ UNCHANGED qvars

\* create_backup called from outside, between two other calls
CreateBackup(p) ==
    /\ applying.pc # "write"
    /\ create_backup(p)
    /\ NoQueryResult
    /\ applying' = NoApply

\* the backup store in use: backups are made, listed and cleaned up
NextStore ==
    /\ \/ \E p \in OrigPaths : CreateBackup(p)
       \/ \E p \in OrigPaths \cup {NoPath} : ListBackups(p)
       \/ \E p \in OrigPaths \cup {NoPath}, days \in DaysInputs : cleanup_old_backups(p, days)
       \/ NextDay
    /\ UNCHANGED xvars

\* both files exist when the session starts
InitStore ==
    /\ InitBackup
    /\ \A p \in OrigPaths : Exists(disk, p)

SpecStore == InitStore /\ [][NextStore]_vars

\* the backups earlier sessions left in the backup directory: at most one
\* per day, made of either file, whose unlink failed or which a session
\* with a larger max_backups kept
EarlierDays == 0..MaxDays
EarlierBackup(day, orig) ==
    [name |-> backup_name(orig, day * SecondsPerDay), data |-> <<"x">>, orig |-> orig,
     complete |-> TRUE, ctime |-> day * SecondsPerDay * TicksPerSecond + 1]
EarlierStores ==
    {{EarlierBackup(day, made[day]) : day \in {d \in EarlierDays : made[d] # NoPath}} :
        made \in [EarlierDays -> OrigPaths \cup {NoPath}]}

\* a session that starts on the day after, with a backup directory in use
InitRetain ==
    /\ osName = "posix"
    /\ WriterIdle
    /\ disk = {[path |-> p, data |-> <<"x">>] : p \in OrigPaths}
    /\ dirs = {<<>>, <<"d">>}
    /\ store \in EarlierStores
    /\ now = (MaxDays + 1) * SecondsPerDay
    /\ copies = 0
    /\ edits = 0
    /\ restores = 0
    /\ last = NoCall
    /\ streak = <<>>
    /\ QueryIdle
    /\ ExtraIdle

NextRetain ==
    /\ \/ \E p \in OrigPaths : CreateBackup(p)
       \/ \E p \in OrigPaths \cup {NoPath} : ListBackups(p)
    /\ UNCHANGED xvars

SpecRetain == InitRetain /\ [][NextRetain]_vars

\* the assistant modifying files, and its user looking for the backups
NextApply ==
    /\ \/ \E p \in OrigPaths : CreateBackup(p)
       \/ \E p \in OrigPaths, c \in NewContents, cb \in BOOLEAN : apply_changes_to_file(p, c, cb)
       \/ write_content
       \/ \E p \in OrigPaths : get_latest_backup(p)
       \/ NextDay
    /\ UNCHANGED xvars

SpecApply == InitStore /\ [][NextApply]_vars

(***************************************************************************)
(* FileReader.is_text_file (reader.py): extension tables, MIME guess,      *)
(* content probe.  The tables hold the entries the names below exercise.   *)
(***************************************************************************)
\* str.lower() on the letters the names use
lower_char(ch) == CASE ch = "P" -> "p" [] ch = "Y" -> "y" [] OTHER -> ch
lower(n) == [i \in 1..Len(n) |-> lower_char(n[i])]

\* FileReader.TEXT_EXTENSIONS
TEXT_EXTENSIONS ==
    {<<".", "p", "y">>, <<".", "t", "x", "t">>, <<".", "j", "s">>,
     <<".", "g", "i", "t", "i", "g", "n", "o", "r", "e">>}

\* FileReader.BINARY_EXTENSIONS
BINARY_EXTENSIONS == {<<".", "p", "y", "c">>, <<".", "p", "n", "g">>}

\* a MIME type is <<type, subtype>>; NoMime is the None of guess_type
NoMime == <<>>

\* mimetypes.guess_type(str(filepath))[0]: the table is the one built into
\* Python ("builtin") or that one extended from the mime.types files of
\* the system ("system"); the lookup falls back to the lower-cased extension
guess_type(n, db) ==
    LET ext == lower(suffix(n)) IN
    CASE ext = <<".", "c", "s", "v">> -> <<"text", "csv">>
      [] ext = <<".", "r", "t", "f">> -> <<"application", "rtf">>
      [] ext = <<".", "x", "s", "l">> ->
             IF db = "builtin" THEN <<"application", "xml">> ELSE <<"application", "xslt+xml">>
      [] ext = <<".", "l", "o", "g">> ->
             IF db = "builtin" THEN NoMime ELSE <<"text", "plain">>
      [] OTHER -> NoMime

\* the structured types is_text_file takes for text
TextMimeTypes ==
    {<<"application", "json">>, <<"application", "xml">>,
     <<"application", "javascript">>, <<"application", "x-python-code">>}

\* bytes of a probed file: an ASCII letter, b'\x00', and a byte (0xE9) that
\* is a character in Latin-1 and CP1252 but no UTF-8 on its own
NUL == "NUL"
HI == "HI"
ProbeBytes == {"a", NUL, HI}

\* sample.decode(encoding) succeeds
decodes(sample, encoding) ==
    IF encoding = "utf-8" THEN \A i \in 1..Len(sample) : sample[i] # HI ELSE TRUE

\* the content probe: open(filepath, 'rb'), f.read(8192), NUL test, decodings;
\* except Exception: return False
content_probe(f) ==
    IF f.kind # "file" THEN FALSE
    ELSE LET sample == SubSeq(f.data, 1, IF Len(f.data) < SampleSize THEN Len(f.data) ELSE SampleSize) IN
         IF \E i \in 1..Len(sample) : sample[i] = NUL THEN FALSE
         ELSE IF decodes(sample, "utf-8") THEN TRUE
         ELSE \E encoding \in {"latin1", "cp1252", "iso-8859-1"} : decodes(sample, encoding)

\* an is_text_file that goes on to the content probe when the guessed MIME
\* type is no text type
is_text_file_probing(n, f, db) ==
    LET ext == lower(suffix(n))
        mime_type == guess_type(n, db)
    IN IF ext \in BINARY_EXTENSIONS THEN FALSE
       ELSE IF ext \in TEXT_EXTENSIONS THEN TRUE
       ELSE IF mime_type # NoMime /\ (mime_type[1] = "text" \/ mime_type \in TextMimeTypes) THEN TRUE
       ELSE content_probe(f)

\* FileReader.is_text_file(filepath), for the file f at filepath
is_text_file(n, f, db) ==
    LET ext == lower(suffix(n))
        mime_type == guess_type(n, db)
    IN IF ext \in BINARY_EXTENSIONS THEN FALSE
       ELSE IF ext \in TEXT_EXTENSIONS THEN TRUE
       ELSE IF mime_type # NoMime
            THEN mime_type[1] = "text" \/ mime_type \in TextMimeTypes
       ELSE content_probe(f)

\* names is_text_file is called on
SnifferNames ==
    {<<"m", ".", "p", "y">>, <<"M", ".", "P", "Y">>, <<"c", ".", "p", "y", "c">>,
     <<"t", ".", "c", "s", "v">>, <<"r", ".", "r", "t", "f">>, <<"s", ".", "x", "s", "l">>,
     <<"d", ".", "l", "o", "g">>, <<"n">>,
     <<".", "g", "i", "t", "i", "g", "n", "o", "r", "e">>}

\* what can be at the path: nothing, a directory, a file that may not be
\* opened, a readable file of up to SampleSize + 1 bytes
ProbeFiles ==
    {[kind |-> k, data |-> <<>>] : k \in {"missing", "dir", "denied"}}
        \cup {[kind |-> "file", data |-> d] :
                 d \in UNION {[1..len -> ProbeBytes] : len \in 0..(SampleSize + 1)}}

InitSniffer ==
    /\ osName = "posix"
    /\ WriterIdle
    /\ BackupIdle
    /\ QueryIdle
    /\ probe_path \in {Path(<<>>, n) : n \in SnifferNames}
    /\ probe_file \in ProbeFiles
    /\ mime_db \in {"builtin", "system"}
    /\ is_text = NotCalled
    /\ ScanIdle
    /\ ClassifyIdle
    /\ InstructIdle

\* the call is_text_file(probe_path)
IsTextFile ==
    /\ is_text = NotCalled
    /\ is_text' = Answer(is_text_file(probe_path.name, probe_file, mime_db))
    /\ UNCHANGED <<probe_path, probe_file, mime_db>>
    /\ UNCHANGED <<wvars, bvars, qvars, pvars, cvars, ivars>>

NextSniffer == IsTextFile

SpecSniffer == InitSniffer /\ [][NextSniffer]_vars

(***************************************************************************)
(* CodeAnalyzer (analyzer.py).  A source text is a sequence of lines, a    *)
(* line a sequence of lexemes: words (runs of \w characters), single       *)
(* whitespace characters (SP) and punctuation.  No two words are adjacent. *)
(* The regular expressions of the tables are matched on the lexemes.       *)
(***************************************************************************)
SP == " "
Punctuation == {"(", ")", ":", "{", "}", "=", "==", "=>", ";", ".", ",", "\"", "'", "#", "*", "::"}
IsWord(t) == t \notin Punctuation \cup {SP}
Quotes == {"\"", "'"}

\* \s* from position i of line L: the position of the first lexeme that is
\* no whitespace (Len(L) + 1 at the end of the line)
RECURSIVE skip(_, _)
skip(L, i) == IF i <= Len(L) /\ L[i] = SP THEN skip(L, i + 1) ELSE i

\* \s+ from position i: the position after the whitespace, 0 if there is none
need(L, i) == IF i >= 1 /\ i <= Len(L) /\ L[i] = SP THEN skip(L, i) ELSE 0

\* the lexeme at position i is (one of) tok / a word
at(L, i, toks) == i >= 1 /\ i <= Len(L) /\ L[i] \in toks
word(L, i) == i >= 1 /\ i <= Len(L) /\ IsWord(L[i])

\* ^\s*kw\s+ : the position after it, 0 if the line does not start so
kw_sp(L, kw) == IF at(L, skip(L, 1), {kw}) THEN need(L, skip(L, 1) + 1) ELSE 0
\* ^\s*kw\s+\w+
kw_word(L, kw) == word(L, kw_sp(L, kw))
\* ^\s*kw\s+\w+\s*[toks]
kw_word_then(L, kw, toks) ==
    word(L, kw_sp(L, kw)) /\ at(L, skip(L, kw_sp(L, kw) + 1), toks)
\* ^\s*kw\s+\w+\s+w  (w a set of words)
kw_word_sp(L, kw, w) ==
    word(L, kw_sp(L, kw)) /\ at(L, need(L, kw_sp(L, kw) + 1), w)
\* ^\s*kw\s+\w+\s+\w+
kw_word_word(L, kw) ==
    word(L, kw_sp(L, kw)) /\ word(L, need(L, kw_sp(L, kw) + 1))
\* ^\s*import\s+.*\s+from\s+["\']
import_from(L) ==
    LET a == kw_sp(L, "import") IN
    /\ a # 0
    /\ \E k \in 1..Len(L) :
          /\ L[k] = "from"
          /\ k - 1 >= skip(L, 1) + 2
          /\ L[k - 1] = SP
          /\ at(L, need(L, k + 1), Quotes)
\* :\s*\w+\s*[=;] starting at position i
typed_at(L, i) ==
    /\ at(L, i, {":", "::"})
    /\ word(L, skip(L, i + 1))
    /\ at(L, skip(L, skip(L, i + 1) + 1), {"=", "==", ";"})

Languages == <<"python", "javascript", "typescript", "java", "go", "rust">>

\* LANGUAGE_PATTERNS[lang]['extensions']
Extensions(lang) ==
    CASE lang = "python" -> {<<".", "p", "y">>, <<".", "p", "y", "x">>, <<".", "p", "y", "i">>}
      [] lang = "javascript" -> {<<".", "j", "s">>, <<".", "m", "j", "s">>}
      [] lang = "typescript" -> {<<".", "t", "s">>, <<".", "t", "s", "x">>}
      [] lang = "java" -> {<<".", "j", "a", "v", "a">>}
      [] lang = "go" -> {<<".", "g", "o">>}
      [] lang = "rust" -> {<<".", "r", "s">>}

\* LANGUAGE_PATTERNS[lang]['keywords']
Keywords(lang) ==
    CASE lang = "python" -> <<"def", "class", "import", "from", "if", "elif", "else", "for",
                              "while", "try", "except">>
      [] lang = "javascript" -> <<"function", "const", "let", "var", "import", "export", "if",
                                  "else", "for", "while">>
      [] lang = "typescript" -> <<"interface", "type", "enum", "function", "const", "let",
                                  "import", "export">>
      [] lang = "java" -> <<"public", "private", "protected", "class", "interface", "package",
                            "import">>
      [] lang = "go" -> <<"package", "import", "func", "type", "struct", "var", "const">>
      [] lang = "rust" -> <<"fn", "struct", "impl", "use", "mod", "let", "mut">>

\* number of matches of the k-th entry of LANGUAGE_PATTERNS[lang]['patterns']
\* in line L (re.findall with re.MULTILINE, line by line)
RECURSIVE count_typed(_, _)
count_typed(L, i) ==
    IF i > Len(L) THEN 0 ELSE (IF typed_at(L, i) THEN 1 ELSE 0) + count_typed(L, i + 1)

B2N(b) == IF b THEN 1 ELSE 0

pattern_matches(lang, k, L) ==
    CASE lang = "python" ->
           B2N(CASE k = 1 -> kw_word(L, "import")
                 [] k = 2 -> kw_word_sp(L, "from", {"import"})
                 [] k = 3 -> kw_word_then(L, "def", {"("})
                 [] k = 4 -> kw_word_then(L, "class", {"(", ":", "::"})
                 [] k = 5 -> LET a == kw_sp(L, "if")
                                 b == skip(L, a + 1)
                                 c == skip(L, b + 1)
                             IN /\ at(L, a, {"__name__"}) /\ at(L, b, {"=="})
                                /\ at(L, c, Quotes) /\ at(L, c + 1, {"__main__"})
                                /\ at(L, c + 2, Quotes))
      [] lang = "javascript" ->
           B2N(CASE k = 1 -> kw_word_then(L, "function", {"("})
                 [] k = 2 -> kw_word_then(L, "const", {"=", "=="})
                 [] k = 3 -> kw_word_then(L, "let", {"=", "=="})
                 [] k = 4 -> kw_word_then(L, "var", {"=", "=="})
                 [] k = 5 -> import_from(L)
                 [] k = 6 -> kw_sp(L, "export") # 0)
      [] lang = "typescript" ->
           (CASE k = 1 -> B2N(kw_word_then(L, "interface", {"{"}))
              [] k = 2 -> B2N(kw_word_then(L, "type", {"=", "=="}))
              [] k = 3 -> B2N(kw_word_then(L, "enum", {"{"}))
              [] k = 4 -> count_typed(L, 1)
              [] k = 5 -> B2N(import_from(L)))
      [] lang = "java" ->
           B2N(CASE k = 1 -> /\ at(L, kw_sp(L, "public"), {"class"})
                             /\ word(L, need(L, kw_sp(L, "public") + 1))
                 [] k = 2 -> kw_word_word(L, "private")
                 [] k = 3 -> /\ at(L, kw_sp(L, "public"), {"static"})
                             /\ at(L, need(L, kw_sp(L, "public") + 1), {"void"})
                             /\ at(L, need(L, need(L, kw_sp(L, "public") + 1) + 1), {"main"})
                 [] k = 4 -> kw_word(L, "package")
                 [] k = 5 -> kw_word(L, "import"))
      [] lang = "go" ->
           B2N(CASE k = 1 -> kw_word(L, "package")
                 [] k = 2 -> at(L, kw_sp(L, "import"), {"\"", "("})
                 [] k = 3 -> kw_word_then(L, "func", {"("})
                 [] k = 4 -> kw_word_sp(L, "type", {"struct"})
                 [] k = 5 -> kw_word_word(L, "var"))
      [] lang = "rust" ->
           B2N(CASE k = 1 -> kw_word_then(L, "fn", {"("})
                 [] k = 2 -> kw_word_then(L, "struct", {"{"})
                 [] k = 3 -> kw_word_then(L, "impl", {"{"})
                 [] k = 4 -> kw_word(L, "use")
                 [] k = 5 -> kw_word(L, "mod"))

\* len(LANGUAGE_PATTERNS[lang]['patterns'])
NumPatterns(lang) == IF lang = "javascript" THEN 6 ELSE 5

\* sum(q) of a sequence of numbers
RECURSIVE sum(_)
sum(q) == IF q = <<>> THEN 0 ELSE Head(q) + sum(Tail(q))

\* occurrences of the word kw in the text (\bkw\b)
keyword_count(text, kw) ==
    sum([i \in 1..Len(text) |-> Cardinality({j \in 1..Len(text[i]) : text[i][j] = kw})])

\* the score detect_language gives lang for the text
score(lang, text) ==
    sum([k \in 1..NumPatterns(lang) |->
            2 * sum([i \in 1..Len(text) |-> pattern_matches(lang, k, text[i])])])
      + sum([k \in 1..Len(Keywords(lang)) |-> keyword_count(text, Keywords(lang)[k])])

NoLanguage == "None"

\* a detect_language whose max() takes the last of the languages with the
\* highest score
detect_language_last_max(n, text) ==
    LET extension == lower(suffix(n)) IN
    IF \E i \in 1..Len(Languages) : extension \in Extensions(Languages[i])
    THEN Languages[CHOOSE i \in 1..Len(Languages) :
                      /\ extension \in Extensions(Languages[i])
                      /\ \A j \in 1..(i - 1) : extension \notin Extensions(Languages[j])]
    ELSE IF \A i \in 1..Len(Languages) : score(Languages[i], text) = 0 THEN NoLanguage
    ELSE Languages[CHOOSE i \in 1..Len(Languages) :
                      /\ \A j \in 1..Len(Languages) :
                            score(Languages[j], text) <= score(Languages[i], text)
                      /\ \A j \in (i + 1)..Len(Languages) :
                            score(Languages[j], text) < score(Languages[i], text)]

\* CodeAnalyzer.detect_language(filepath, content) with the content given
detect_language(n, text) ==
    LET extension == lower(suffix(n)) IN
    IF \E i \in 1..Len(Languages) : extension \in Extensions(Languages[i])
    THEN Languages[CHOOSE i \in 1..Len(Languages) :
                      /\ extension \in Extensions(Languages[i])
                      /\ \A j \in 1..(i - 1) : extension \notin Extensions(Languages[j])]
    ELSE IF \A i \in 1..Len(Languages) : score(Languages[i], text) = 0 THEN NoLanguage
    ELSE Languages[CHOOSE i \in 1..Len(Languages) :
                      /\ \A j \in 1..Len(Languages) :
                            score(Languages[j], text) <= score(Languages[i], text)
                      /\ \A j \in 1..(i - 1) :
                            score(Languages[j], text) < score(Languages[i], text)]

\* the last position of \w+(?:\.\w+)* that starts at the word at position i
RECURSIVE dotted_end(_, _)
dotted_end(L, i) ==
    IF at(L, i + 1, {"."}) /\ word(L, i + 2) THEN dotted_end(L, i + 2) ELSE i

\* the last position of the longest run of words and the lexemes toks from
\* position i, i - 1 if there is none
RECURSIVE run_end(_, _, _)
run_end(L, i, toks) ==
    IF word(L, i) \/ at(L, i, toks) THEN run_end(L, i + 1, toks) ELSE i - 1

\* ["\']([^"\']+)["\'] at position i: the position of the closing quote, 0 if
\* the lexemes from i on are no quoted, non-empty text
quoted_end(L, i) ==
    IF at(L, i, Quotes) /\ \E j \in (i + 2)..Len(L) : L[j] \in Quotes
    THEN LET j == CHOOSE j \in (i + 1)..Len(L) :
                     L[j] \in Quotes /\ \A m \in (i + 1)..(j - 1) : L[m] \notin Quotes
         IN IF j >= i + 2 THEN j ELSE 0
    ELSE 0

NoMatch == <<>>

\* the group of ^\s*import\s+.*\s+from\s+["\']([^"\']+)["\'] in line L
import_from_group(L) ==
    LET a == kw_sp(L, "import")
        K == {k \in 1..Len(L) : /\ a # 0
                                /\ L[k] = "from"
                                /\ k - 1 >= skip(L, 1) + 2
                                /\ L[k - 1] = SP
                                /\ quoted_end(L, need(L, k + 1)) # 0}
    IN IF K = {} THEN NoMatch
       ELSE LET k == CHOOSE k \in K : \A m \in K : m <= k
                q == need(L, k + 1)
            IN SubSeq(L, q + 1, quoted_end(L, q) - 1)

\* the group of ^\s*const\s+.*\s*=\s*require\s*\(\s*["\']([^"\']+)["\']\s*\)
require_group(L) ==
    LET a == kw_sp(L, "const")
        open_quote(k) == skip(L, skip(L, skip(L, k + 1) + 1) + 1)
        K == {k \in 1..Len(L) : /\ a # 0
                                /\ k >= a
                                /\ L[k] \in {"=", "=="}
                                /\ at(L, skip(L, k + 1), {"require"})
                                /\ at(L, skip(L, skip(L, k + 1) + 1), {"("})
                                /\ quoted_end(L, open_quote(k)) # 0
                                /\ at(L, skip(L, quoted_end(L, open_quote(k)) + 1), {")"})}
    IN IF K = {} THEN NoMatch
       ELSE LET k == CHOOSE k \in K : \A m \in K : m <= k
            IN SubSeq(L, open_quote(k) + 1, quoted_end(L, open_quote(k)) - 1)

\* the group the k-th entry of DEPENDENCY_PATTERNS[lang] captures in line L
dependency_group(lang, k, L) ==
    CASE lang = "python" /\ k = 1 ->
           LET a == kw_sp(L, "import") IN
           IF word(L, a) THEN SubSeq(L, a, dotted_end(L, a)) ELSE NoMatch
      [] lang = "python" /\ k = 2 ->
           LET a == kw_sp(L, "from") IN
           IF word(L, a) /\ at(L, need(L, dotted_end(L, a) + 1), {"import"})
           THEN SubSeq(L, a, dotted_end(L, a)) ELSE NoMatch
      [] lang \in {"javascript", "typescript"} /\ k = 1 -> import_from_group(L)
      [] lang = "javascript" /\ k = 2 -> require_group(L)
      [] lang = "java" /\ k = 1 ->
           LET a == kw_sp(L, "import") IN
           IF a # 0 THEN SubSeq(L, a, run_end(L, a, {"."})) ELSE NoMatch
      [] lang = "go" /\ k = 1 ->
           LET a == kw_sp(L, "import") IN
           IF quoted_end(L, a) # 0 THEN SubSeq(L, a + 1, quoted_end(L, a) - 1) ELSE NoMatch
      [] lang = "go" /\ k = 2 ->
           LET a == need(L, kw_sp(L, "import") + 1) IN
           IF word(L, kw_sp(L, "import")) /\ quoted_end(L, a) # 0
           THEN SubSeq(L, a + 1, quoted_end(L, a) - 1) ELSE NoMatch
      [] lang = "rust" /\ k = 1 ->
           LET a == kw_sp(L, "use") IN
           IF a # 0 THEN SubSeq(L, a, run_end(L, a, {":", "::"})) ELSE NoMatch
      [] OTHER -> NoMatch

\* len(DEPENDENCY_PATTERNS[lang])
NumDependencyPatterns(lang) ==
    CASE lang \in {"python", "javascript", "go"} -> 2
      [] lang \in {"typescript", "java", "rust"} -> 1
      [] OTHER -> 0

\* str.strip() of a sequence of lexemes
RECURSIVE strip(_)
strip(q) ==
    IF q = <<>> THEN q
    ELSE IF Head(q) = SP THEN strip(Tail(q))
    ELSE IF q[Len(q)] = SP THEN strip(SubSeq(q, 1, Len(q) - 1))
    ELSE q

\* the lexemes of dependency names, in the order Python gives the strings;
\* none of them is a prefix of another
Vocabulary == <<".", "os", "path", "re", "std", "sys", "x">>
rank(t) == CHOOSE i \in 1..Len(Vocabulary) : Vocabulary[i] = t

\* a < b for two strings given as lexemes of Vocabulary
RECURSIVE str_less(_, _)
str_less(a, b) ==
    IF b = <<>> THEN FALSE
    ELSE IF a = <<>> THEN TRUE
    ELSE IF Head(a) = Head(b) THEN str_less(Tail(a), Tail(b))
    ELSE rank(Head(a)) < rank(Head(b))

\* a sorted(...) that puts the greatest string first
RECURSIVE sorted_descending(_)
sorted_descending(S) ==
    IF S = {} THEN <<>>
    ELSE LET m == CHOOSE e \in S : \A o \in S : o = e \/ str_less(o, e)
         IN <<m>> \o sorted_descending(S \ {m})

\* sorted(list(S)) for a set of strings
RECURSIVE sorted(_)
sorted(S) ==
    IF S = {} THEN <<>>
    ELSE LET m == CHOOSE e \in S : \A o \in S : o = e \/ str_less(e, o)
         IN <<m>> \o sorted(S \ {m})

\* the set extract_dependencies collects for a text of language lang
dependency_set(lang, text) ==
    LET all == {strip(dependency_group(lang, k, text[i])) :
                   k \in 1..NumDependencyPatterns(lang), i \in 1..Len(text)}
    IN {d \in all : d # <<>> /\ Head(d) # "."}

\* CodeAnalyzer.extract_dependencies(filepath, content)
extract_dependencies(n, text) ==
    IF detect_language(n, text) = NoLanguage THEN <<>>
    ELSE sorted(dependency_set(detect_language(n, text), text))

\* a Python pass that counts the declarations that start in the first column
analyze_python_structure_top_level(text) ==
    LET is_def(L) == at(L, 1, {"def"}) /\ kw_word_then(L, "def", {"("})
        is_class(L) == at(L, 1, {"class"}) /\ kw_word_then(L, "class", {"(", ":", "::"})
    IN [functions |-> Cardinality({i \in 1..Len(text) : is_def(text[i])}), classes |-> Cardinality({i \in 1..Len(text) : is_class(text[i])})]

\* CodeAnalyzer._analyze_python_structure(content)
analyze_python_structure(text) ==
    LET is_def(L) == kw_word_then(L, "def", {"("})
        is_class(L) == kw_word_then(L, "class", {"(", ":", "::"})
    IN [functions |-> Cardinality({i \in 1..Len(text) : is_def(text[i])}), classes |-> Cardinality({i \in 1..Len(text) : is_class(text[i])})]

\* \w+\s*=\s*\([^)]*\)\s*=> starting at the word at position i of line L
arrow_at(L, i) ==
    /\ word(L, i)
    /\ at(L, skip(L, i + 1), {"="})
    /\ at(L, skip(L, skip(L, i + 1) + 1), {"("})
    /\ \E c \in 1..Len(L) :
          /\ c > skip(L, skip(L, i + 1) + 1)
          /\ L[c] = ")"
          /\ \A m \in (skip(L, skip(L, i + 1) + 1) + 1)..(c - 1) : L[m] # ")"
          /\ at(L, skip(L, c + 1), {"=>"})

\* CodeAnalyzer._analyze_js_structure(content)
analyze_js_structure(text) ==
    LET is_function(L) == kw_word_then(L, "function", {"("})
        is_class(L) == kw_word(L, "class")
    IN [functions |-> Cardinality({i \in 1..Len(text) : is_function(text[i])}),
        arrow_functions |-> sum([i \in 1..Len(text) |->
                                   Cardinality({j \in 1..Len(text[i]) : arrow_at(text[i], j)})]),
        classes |-> Cardinality({i \in 1..Len(text) : is_class(text[i])})]

\* CodeAnalyzer.analyze_file_structure(filepath, content): the entries of
\* the analysis that the callers read; None stands for a key that is absent
analyze_file_structure(p, text) ==
    LET structure(language) ==
            CASE language = "python" ->
                   [arrow_functions |-> None] @@ analyze_python_structure(text)
              [] language \in {"javascript", "typescript"} -> analyze_js_structure(text)
              [] OTHER -> [functions |-> None, classes |-> None, arrow_functions |-> None]
    IN CHOOSE analysis_ \in
          {[filepath |-> p,
            language |-> language,
            dependencies |-> extract_dependencies(p.name, text),
            line_count |-> Len(text),
            blank_lines |-> Cardinality({i \in 1..Len(text) : strip(text[i]) = <<>>}),
            functions |-> s.functions,
            classes |-> s.classes,
            arrow_functions |-> s.arrow_functions] :
               <<language, s>> \in {<<l, structure(l)>> : l \in {detect_language(p.name, text)}}} :
          TRUE

\* the bytes of a text: the lexemes, the lines ended by LF
RECURSIVE join_lines(_)
join_lines(text) ==
    IF text = <<>> THEN <<>> ELSE Head(text) \o <<LF>> \o join_lines(Tail(text))

\* f.read(8192) of detect_language: the lines of the first DetectSample
\* lexemes of the file
read_sample(text) ==
    LET data == join_lines(text)
    IN split(SubSeq(data, 1, IF Len(data) < DetectSample THEN Len(data) ELSE DetectSample), LF)

\* the call detect_language(filepath, content) for the arguments and the
\* file of src; content is None unless src.given
detect_language_call(src) ==
    IF \/ \E i \in 1..Len(Languages) : lower(suffix(src.name)) \in Extensions(Languages[i])
       \/ src.given
    THEN [op |-> "detect_language", result |-> Returned,
          value |-> detect_language(src.name, src.text)]
    ELSE IF ~src.readable
    THEN [op |-> "detect_language",
          result |-> Raised("FileOperationError", "language_detection", "open"),
          value |-> NoLanguage]
    ELSE [op |-> "detect_language", result |-> Returned,
          value |-> detect_language(src.name, read_sample(src.text))]

\* the call extract_dependencies(filepath, content)
extract_dependencies_call(src) ==
    LET language == detect_language_call(src) IN
    IF language.result # Returned
    THEN [op |-> "extract_dependencies", result |-> language.result, value |-> <<>>]
    ELSE IF language.value = NoLanguage
    THEN [op |-> "extract_dependencies", result |-> Returned, value |-> <<>>]
    ELSE IF ~src.given /\ ~src.readable
    THEN [op |-> "extract_dependencies",
          result |-> Raised("FileOperationError", "dependency_extraction", "open"),
          value |-> <<>>]
    ELSE [op |-> "extract_dependencies", result |-> Returned,
          value |-> sorted(dependency_set(language.value, src.text))]

\* the call analyze_file_structure(filepath, content)
analyze_file_structure_call(src) ==
    IF ~src.given /\ ~src.readable
    THEN [op |-> "analyze_file_structure",
          result |-> Raised("FileOperationError", "structure_analysis", "open"),
          value |-> None]
    ELSE [op |-> "analyze_file_structure", result |-> Returned,
          value |-> analyze_file_structure(Path(<<>>, src.name), src.text)]

\* lines the analysed texts are made of
ClassifyLines ==
    {<<"import", SP, "os">>,
     <<"import", SP, "sys">>,
     <<"def", SP, "foo", "(", ")", ":">>,
     <<SP, "def", SP, "bar", "(", ")", ":">>,
     <<SP, "class", SP, "A", ":">>,
     <<"import", SP, "x", SP, "from", SP, "'", SP, "os", "'">>,
     <<"import", SP, "x", SP, "from", SP, "'", ".", "os", "'">>,
     <<"use", SP, "std">>,
     <<SP, SP, "pass">>}

\* 'import os / import sys / def foo(): pass'
ScenarioText ==
    << <<"import", SP, "os">>, <<"import", SP, "sys">>, <<"def", SP, "foo", "(", ")", ":">>,
       <<SP, SP, "pass">> >>

ClassifyTexts ==
    {ScenarioText} \cup UNION {[1..len -> ClassifyLines] : len \in 0..MaxLines}

ClassifyNames ==
    {<<"a", ".", "p", "y">>, <<"a", ".", "j", "s">>, <<"a", ".", "t", "x", "t">>, <<"n">>}

InitClassify ==
    /\ osName = "posix"
    /\ WriterIdle
    /\ BackupIdle
    /\ QueryIdle
    /\ SnifferIdle
    /\ ScanIdle
    /\ InstructIdle
    /\ source \in {src \in [name : ClassifyNames, text : ClassifyTexts,
                             given : BOOLEAN, readable : BOOLEAN] :
                        ~src.readable => (src.given \/ src.text = <<>>)}
    /\ classified = NotClassified

AnalyzerCall(answer) ==
    /\ classified = NotClassified
    /\ classified' = answer
    /\ UNCHANGED source
    /\ UNCHANGED <<wvars, bvars, qvars, svars, pvars, ivars>>

DetectLanguage == AnalyzerCall(detect_language_call(source))
ExtractDependencies == AnalyzerCall(extract_dependencies_call(source))
AnalyzeFileStructure == AnalyzerCall(analyze_file_structure_call(source))

NextClassify == DetectLanguage \/ ExtractDependencies \/ AnalyzeFileStructure

SpecClassify == InitClassify /\ [][NextClassify]_vars

(***************************************************************************)
(* CodeAssistant.analyze_project (core.py).  The project is a flat         *)
(* directory project_root; the ignore patterns are file-name globs.        *)
(***************************************************************************)
\* fnmatch of a file name against a glob with at most one "*"
fnmatch(n, pat) ==
    IF \A i \in 1..Len(pat) : pat[i] # "*" THEN n = pat
    ELSE LET i == CHOOSE i \in 1..Len(pat) : pat[i] = "*"
             pre == SubSeq(pat, 1, i - 1)
             suf == SubSeq(pat, i + 1, Len(pat))
         IN /\ Len(n) >= Len(pre) + Len(suf)
            /\ SubSeq(n, 1, Len(pre)) = pre
            /\ SubSeq(n, Len(n) - Len(suf) + 1, Len(n)) = suf

\* a reader that has no ignore rules
should_ignore_nothing(n, patterns) == FALSE

\* FileReader.should_ignore_file(filepath) for the file named n: a pattern
\* without "/" is matched against the last component of the path
should_ignore_file(n, patterns) ==
    IF patterns = {} THEN FALSE ELSE \E pat \in patterns : fnmatch(n, pat)

\* the file-name globs among default_patterns of _setup_ignore_patterns
default_patterns ==
    {<<"*", ".", "p", "y", "c">>, <<"*", ".", "l", "o", "g">>, <<"*", ".", "t", "m", "p">>}

\* the pattern lists the reader is set up with: none, the defaults, the
\* defaults and a line of .gitignore
IgnoreLists ==
    {{}, default_patterns, default_patterns \cup {<<"l", "i", "b", ".", "p", "y">>}}

\* texts of the files of the project
MainPy == << <<"import", SP, "os">>, <<"def", SP, "f", "(", ")", ":">> >>
LibPy == << <<"from", SP, "os", ".", "path", SP, "import", SP, "sys">>,
            <<"import", SP, "sys">>, <<>> >>
DebugLog == << <<"import", SP, "re">> >>
RustText == << <<"use", SP, "std">> >>
Binary == << <<NUL>> >>

main_py == <<"m", "a", "i", "n", ".", "p", "y">>
lib_py == <<"l", "i", "b", ".", "p", "y">>
debug_log == <<"d", "e", "b", "u", "g", ".", "l", "o", "g">>
no_ext == <<"n">>

TreeEntry(n, k, t) == [name |-> n, kind |-> k, text |-> t]

\* what can be in the project: each name is absent or one of the entries
TreeChoices ==
    <<{TreeEntry(main_py, "file", MainPy), TreeEntry(main_py, "denied", <<>>)},
      {TreeEntry(lib_py, "file", LibPy)},
      {TreeEntry(debug_log, "file", DebugLog), TreeEntry(debug_log, "denied", <<>>)},
      {TreeEntry(no_ext, "file", Binary), TreeEntry(no_ext, "file", RustText),
       TreeEntry(no_ext, "dir", <<>>)}>>

Trees ==
    {t \in SUBSET (UNION Range(TreeChoices)) :
        \A i \in 1..Len(TreeChoices) : Cardinality(t \cap TreeChoices[i]) <= 1}

\* the include_patterns arguments; <<>> is None
IncludeLists ==
    {<<>>, << <<"*", ".", "p", "y">> >>, << <<"*", ".", "p", "y">>, <<"m", "*">> >>,
     << <<"*">> >>, << <<"m", "*">>, <<"*">> >>}

\* the orders in which a directory walk may yield the entries S
Orders(S) ==
    {q \in [1..Cardinality(S) -> S] : \A i, j \in 1..Cardinality(S) : q[i] = q[j] => i = j}

\* the lists files may be after the enumeration
RECURSIVE Enumerations(_, _)
Enumerations(t, patterns) ==
    IF patterns = <<>> THEN {<<>>}
    ELSE {a \o b : a \in Orders({e \in t : fnmatch(e.name, Head(patterns))}),
                   b \in Enumerations(t, Tail(patterns))}

Enumerated(t, include_patterns) ==
    IF include_patterns = <<>> THEN Orders({e \in t : e.kind \in {"file", "denied"}})
    ELSE Enumerations(t, include_patterns)

\* what is_text_file finds at the path of entry e
AsProbeFile(e) == [kind |-> e.kind, data |-> join_lines(e.text)]

EmptyAnalysis ==
    [project_root |-> project_root,
     files |-> <<>>,
     languages |-> [l \in Range(Languages) |-> 0],
     dependencies |-> {},
     total_files |-> 0,
     total_lines |-> 0,
     errors |-> <<>>]

\* one round of the loop over files, for entry e
scan_file(acc, e, patterns, db) ==
    IF should_ignore_file(e.name, patterns) THEN acc
    ELSE IF ~is_text_file(e.name, AsProbeFile(e), db) THEN acc
    ELSE IF e.kind # "file"
    THEN [acc EXCEPT !.errors = Append(@, [file |-> Path(project_root, e.name),
                                           error |-> "structure_analysis"])]
    ELSE LET file_analysis == analyze_file_structure(Path(project_root, e.name), e.text)
             language == file_analysis.language
         IN [acc EXCEPT !.files = Append(@, file_analysis),
                        !.languages = IF language # NoLanguage
                                      THEN [@ EXCEPT ![language] = @ + 1] ELSE @,
                        !.dependencies = @ \cup Range(file_analysis.dependencies),
                        !.total_files = @ + 1,
                        !.total_lines = @ + file_analysis.line_count]

RECURSIVE scan(_, _, _, _)
scan(acc, q, patterns, db) ==
    IF q = <<>> THEN acc ELSE scan(scan_file(acc, Head(q), patterns, db), Tail(q), patterns, db)

\* CodeAssistant.analyze_project(include_patterns)
analyze_project(include_patterns) ==
    /\ analysis = NotRun
    /\ \E q \in Enumerated(tree, include_patterns) :
          /\ files' = q
          /\ analysis' = LET a == scan(EmptyAnalysis, q, ignore_patterns, mime_db)
                         IN [a EXCEPT !.dependencies = sorted(@)]
    /\ UNCHANGED <<tree, ignore_patterns>>
    /\ UNCHANGED <<wvars, bvars, qvars, svars, cvars, ivars>>

InitScan ==
    /\ osName = "posix"
    /\ WriterIdle
    /\ BackupIdle
    /\ QueryIdle
    /\ probe_path = NoPath
    /\ probe_file = [kind |-> "missing", data |-> <<>>]
    /\ mime_db \in {"builtin", "system"}
    /\ is_text = NotCalled
    /\ tree \in Trees
    /\ ignore_patterns \in IgnoreLists
    /\ files = <<>>
    /\ analysis = NotRun
    /\ ClassifyIdle
    /\ InstructIdle

NextScan == \E include_patterns \in IncludeLists : analyze_project(include_patterns)

SpecScan == InitScan /\ [][NextScan]_vars

(***************************************************************************)
(* CodeAssistant.process_instruction (core.py), one step per call of a     *)
(* component.  The provider is the environment: each of its calls returns  *)
(* or raises.                                                              *)
(***************************************************************************)
\* the instruction argument: a text, an empty or whitespace-only text, or
\* an object that is no string (None)
Instructions == {"text", "blank", "not_a_string"}

\* the file the target_file argument names
TargetPath(tf) == IF is_absolute(tf) THEN tf ELSE Path(project_root, tf.name)

\* the file at path p as File(data) or Missing
FileAt(d, p) == IF Exists(d, p) THEN File(Read(d, p)) ELSE Missing

\* except (LLMProviderError, FileOperationError) as e
processing_error(e) ==
    CodeAssistantError(<<"Failed to process instruction: ">> \o e, "PROCESSING_ERROR")

\* except Exception as e
unexpected_error(e) ==
    CodeAssistantError(<<"Unexpected error during processing: ">> \o e, "UNEXPECTED_ERROR")

\* the call ends at the step it is in, with the exception e
Fails(e) == instr' = [instr EXCEPT !.pc = "done", !.result = e]

\* the next step of the call
Goes(step) == instr' = [instr EXCEPT !.pc = step, !.steps = Append(@, step)]

InstructionFrame ==
    /\ UNCHANGED <<wvars, bvars, qvars>>
    /\ UNCHANGED <<svars, pvars, cvars>>

\* the call process_instruction(instruction, target_file, create_backup) up
\* to the validation of the instruction
process_instruction(instruction, target_file, cb) ==
    /\ instr.pc \in {"idle", "done"}
    /\ LET call == [NoInstruction EXCEPT !.instruction = instruction,
                                         !.target_file = target_file,
                                         !.create_backup = cb,
                                         !.steps = <<"validate">>,
                                         !.before = FileAt(disk, TargetPath(target_file))]
       IN instr' =
            CASE instruction = "not_a_string" ->
                   [call EXCEPT !.pc = "done",
                                !.result = unexpected_error(<<"AttributeError">>)]
              [] instruction = "blank" ->
                   [call EXCEPT !.pc = "done",
                                !.result = unexpected_error(
                                    str(CodeAssistantError(<<"Instruction cannot be empty">>,
                                                           "EMPTY_INSTRUCTION")))]
              [] OTHER ->
                   [call EXCEPT !.pc = IF target_file # NoPath THEN "context" ELSE "request",
                                !.steps = Append(@, IF target_file # NoPath THEN "context"
                                                    ELSE "request")]
    /\ InstructionFrame

\* context = self._prepare_file_context(target_file): the file is read and
\* classified; any failure is raised as FileOperationError
PrepareFileContext ==
    /\ instr.pc = "context"
    /\ \/ /\ Exists(disk, TargetPath(instr.target_file))
          /\ Goes("request")
       \/ Fails(processing_error(<<"Failed to prepare file context: ">>))
    /\ InstructionFrame

\* GenerationRequest(...) and self.provider.validate_request(request)
ValidateRequest ==
    /\ instr.pc = "request"
    /\ \/ Goes("capability")
       \/ Fails(processing_error(<<"LLMProviderError">>))
       \/ Fails(unexpected_error(<<"ValueError">>))
    /\ InstructionFrame

\* self.provider.supports_capability(ProviderCapability.CODE_GENERATION)
CheckCapability ==
    /\ instr.pc = "capability"
    /\ \/ Goes("generate")
       \/ Fails(unexpected_error(
              str(CodeAssistantError(<<"Provider does not support code generation">>,
                                     "CAPABILITY_NOT_SUPPORTED"))))
    /\ InstructionFrame

\* response = self.provider.generate_code(request)
GenerateCode ==
    /\ instr.pc = "generate"
    /\ \/ \E c \in NewContents :
             instr' = [instr EXCEPT !.provider_calls = @ + 1,
                                    !.generated = c,
                                    !.pc = IF instr.target_file # NoPath THEN "apply" ELSE "done",
                                    !.steps = IF instr.target_file # NoPath
                                              THEN Append(@, "apply") ELSE @,
                                    !.result = IF instr.target_file # NoPath
                                               THEN NotEnded ELSE ResultReturned]
       \/ instr' = [instr EXCEPT !.provider_calls = @ + 1,
                                 !.pc = "done",
                                 !.result = processing_error(<<"LLMProviderError">>)]
    /\ InstructionFrame

\* self._apply_changes_to_file(target_file, response.content, create_backup)
\* up to the backup
ApplyChanges ==
    /\ instr.pc = "apply"
    /\ apply_changes_to_file(instr.target_file, instr.generated, instr.create_backup)
    /\ IF applying'.pc = "done"
       THEN Fails(processing_error(<<"Failed to apply changes to file: ">>))
       ELSE Goes("write")
    /\ UNCHANGED <<svars, pvars, cvars>>

\* the write of _apply_changes_to_file and the return of the result
WriteContent ==
    /\ instr.pc = "write"
    /\ write_content
    /\ IF applying'.result = Returned
       THEN instr' = [instr EXCEPT !.pc = "done", !.result = ResultReturned]
       ELSE Fails(processing_error(<<"Failed to apply changes to file: ">>))
    /\ UNCHANGED <<svars, pvars, cvars>>

InitInstruct ==
    /\ InitBackup
    /\ SnifferIdle
    /\ ScanIdle
    /\ ClassifyIdle
    /\ instr = NoInstruction

NextInstruct ==
    \/ \E i \in Instructions, tf \in OrigPaths \cup {NoPath}, cb \in BOOLEAN :
          process_instruction(i, tf, cb)
    \/ PrepareFileContext
    \/ ValidateRequest
    \/ CheckCapability
    \/ GenerateCode
    \/ ApplyChanges
    \/ WriteContent

SpecInstruct == InitInstruct /\ [][NextInstruct]_vars

(***************************************************************************)
(* Claims about FileWriter.write_file (checked under SpecWriter).          *)
(***************************************************************************)
\* the file that holds the complete new content
NewFile == File(TextWrite(content, osName))

\* C1: whenever write_file(path, content) returns normally, reading path
\* immediately afterwards (as bytes, or as text the way FileReader.read_file
\* reads) yields exactly content, and the parent directories exist, whether
\* or not the target existed before.
C1_ReadBackYieldsContent ==
    (pc = "done" /\ result.kind = "returned")
        => /\ parent_exists
           /\ target.ex
           /\ (target.data = content \/ TextRead(target.data) = content)

\* C2: at every intermediate step of write_file a reader of the target path
\* sees the complete prior state of the target or the complete new content,
\* never a missing, truncated or partially written target.
C2_ReaderSeesPriorOrNew ==
    (pc \notin {"idle"}) => (target = prior \/ target = NewFile)

\* C3: if write_file is called on an existing target with backup-on-write
\* enabled and the temp-file write or the rename fails, the call raises and
\* the target's content afterwards is byte-identical to its content before.
C3_FailedWriteLeavesTarget ==
    (pc = "done" /\ create_backups /\ prior.ex /\ failed \in {"write", "move"})
        => (result.kind = "raised" /\ target = prior)

\* C4: every write_file call ends committed (returns normally, target holds
\* the new content, no temporary file, the sibling backup made by the call
\* discarded) or rolled back (raises, target holds its prior state, no
\* temporary file).
Committed ==
    /\ result.kind = "returned"
    /\ target = NewFile
    /\ ~temp.ex
    /\ (backup_path # None => ~siblings[backup_path].ex)

RolledBack ==
    /\ result.kind = "raised"
    /\ target = prior
    /\ ~temp.ex

C4_CommittedOrRolledBack ==
    (pc = "done") => (Committed \/ RolledBack)

(***************************************************************************)
(* Claims about BackupManager (checked under SpecBackup).                  *)
(***************************************************************************)
\* the backups in the store that were made of the file at p
BackupsOf(p) == {e \in store : e.orig = p}

\* C5: once a create_backup call for original path p has returned (every
\* deletion its retention tried having succeeded), the number of backups
\* retained in the backup directory for p does not exceed max_backups.
C5_RetainedWithinCap ==
    (last.op = "create_backup" /\ last.result.kind = "returned" /\ last.stuck = {})
        => Cardinality(BackupsOf(last.filepath)) <= max_backups

\* C6: after N consecutive successful create_backup calls on the same path
\* with cap K < N, exactly K backups of that path remain, and they are the K
\* most recently created ones, each holding the content at its creation.
C6_ExactlyCapMostRecent ==
    (last.op = "create_backup" /\ Len(streak) > max_backups)
        => {[name |-> e.name, data |-> e.data] : e \in BackupsOf(last.filepath)}
               = Range(SubSeq(streak, Len(streak) - max_backups + 1, Len(streak)))

\* C7: for an existing file p with content c, b = create_backup(p), any
\* change to p, then restore_backup(b) with no target given leaves p with
\* bytes equal to c.
C7_RestoreRoundTrips ==
    (/\ last.op = "restore_backup"
     /\ last.inferred
     /\ last.result.kind = "returned"
     /\ Entry(store, last.backup).complete)
        => LET e == Entry(store, last.backup)
           IN Exists(disk, e.orig) /\ Read(disk, e.orig) = e.data

\* C8: the path inferred from the backup file that create_backup(p) produced
\* equals p, for every original path p and every timestamp.
C8_InferredIsOriginal ==
    \A e \in store : e.complete => infer_original_path(e.name) = e.orig

\* C9: create_backup(path) on a path that does not exist fails with a
\* not-found FileOperationError, creates no backup file and leaves the set
\* of backups unchanged (no retention deletion runs).
C9_MissingFileBackupFails ==
    [][(last'.op = "create_backup" /\ ~Exists(disk, last'.filepath))
          => /\ last'.result = Raised("FileOperationError", "backup", "none")
             /\ last'.attempted = <<>>
             /\ store' = store
             /\ disk' = disk]_vars

C9_Witness ==
    /\ last.op = "create_backup"
    /\ ~Exists(disk, last.filepath)
    /\ last.result = Raised("FileOperationError", "backup", "none")
    /\ store # {}

\* C10: restore_backup(backup_path, target) fails with a not-found
\* FileOperationError when the backup file is missing, and then neither the
\* target nor any directory is created or modified; when the backup exists
\* and the call returns, the missing parent directories of the target exist,
\* the target holds the backup's bytes and the backup remains in the store.
C10_RestoreBackup ==
    [][(last'.op = "restore_backup")
          => IF last'.backup \notin StoreNames(store)
             THEN /\ last'.result = Raised("FileOperationError", "restore", "none")
                  /\ disk' = disk
                  /\ dirs' = dirs
                  /\ store' = store
             ELSE /\ store' = store
                  /\ last'.result.kind \in {"returned", "raised"}
                  /\ last'.result.kind = "raised"
                        => /\ last'.result.type = "FileOperationError"
                           /\ last'.result.operation = "restore"
                  /\ last'.result.kind = "returned"
                        => /\ Ancestors(last'.target.dir) \subseteq dirs'
                           /\ Exists(disk', last'.target)
                           /\ Read(disk', last'.target) = Entry(store, last'.backup).data]_vars

C10_Witness ==
    /\ last.op = "restore_backup"
    /\ last.result.kind = "returned"
    /\ last.target = T_new
    /\ T_new.dir \in dirs
    /\ Exists(disk, T_new)
    /\ last.backup \in StoreNames(store)
    /\ Read(disk, T_new) = Entry(store, last.backup).data

(***************************************************************************)
(* Claims on the error handling of FileWriter and on backup file names.    *)
(***************************************************************************)
\* C14: a create_backup call never overwrites a backup file that is already
\* in the backup directory, also when two backups of files with the same
\* name are made within one timestamp second (a taken name is avoided by
\* probing a numeric suffix): every backup that was in the directory under
\* the name the call writes to is still there, unchanged, after the call.
C14_NeverOverwritesBackup ==
    [][(last'.op = "create_backup" /\ now' = now)
          => \A e \in store : e.name = last'.backup => e \in store']_vars

\* C15: if the temp-file write and the rename of write_file succeed but the
\* deletion of the pre-write sibling backup fails (the sibling is still
\* there when the call ends), write_file returns normally and the target
\* holds the new content as the text-mode write produced it.
C15_CleanupFailureNotMasking ==
    [][(pc = "cleanup" /\ pc' = "done" /\ backup_path # None /\ siblings'[backup_path].ex)
          => /\ result' = Returned
             /\ target' = NewFile]_vars

C15_Witness ==
    /\ pc = "done"
    /\ failed = "none"
    /\ prior.ex
    /\ backup_path # None
    /\ siblings[backup_path].ex
    /\ result = Returned
    /\ target = NewFile

\* C16: every failure write_file surfaces, at whichever step it occurs
\* (making the parent directories, the pre-write backup, the temp file, the
\* rename), is a FileOperationError that carries the operation name and the
\* underlying cause; no exception of another type escapes.
C16_FailuresAreFileOperationErrors ==
    result.kind = "raised"
        => /\ result.type = "FileOperationError"
           /\ result.operation # "none"
           /\ result.original_error # "none"

(***************************************************************************)
(* Claims on the queries of BackupManager (checked under SpecStore).       *)
(***************************************************************************)
\* C11: list_backups(path) returns exactly the backups in the backup
\* directory whose inferred original path equals path (all of them when
\* path is omitted), each once, ordered newest-first by creation time; an
\* entry that cannot be read is skipped, the others are still listed and
\* the call does not fail.
C11_ListBackups ==
    last.op = "list_backups"
        => /\ last.result = Returned
           /\ Range(ret) = {e.name : e \in {b \in store :
                                 /\ b.name \notin skipped
                                 /\ \/ last.filepath = NoPath
                                    \/ infer_original_path(b.name) = last.filepath}}
           /\ \A i, j \in 1..Len(ret) :
                 i < j => /\ ret[i] # ret[j]
                          /\ Entry(store, ret[i]).ctime >= Entry(store, ret[j]).ctime

\* a listing for one path that holds two backups of different age
C11_Witness ==
    /\ last.op = "list_backups"
    /\ last.filepath # NoPath
    /\ Len(ret) = 2
    /\ Entry(store, ret[1]).ctime > Entry(store, ret[2]).ctime

\* C12: after _apply_changes_to_file modified an existing target with
\* create_backup=True, get_latest_backup(target) returns a backup file that
\* exists and whose content is the content of the target before the
\* modification.
C12_LatestBackupHoldsPrior ==
    [][(/\ last.op = "apply_changes"
        /\ last.result = Returned
        /\ applying.create_backup
        /\ applying.before.ex
        /\ last'.op = "get_latest_backup"
        /\ last'.filepath = applying.filepath
        /\ skipped' = {})
          => /\ ret' # None
             /\ ret' \in StoreNames(store')
             /\ Entry(store', ret').data = applying.before.data]_vars

\* C13: cleanup_old_backups(path, threshold) deletes only backups of path
\* (of any path when it is omitted) whose creation time is older than the
\* threshold, returns the number of backups it deleted, and a deletion that
\* fails neither stops the deletion of the other old backups nor is counted.
C13_CleanupOldBackups ==
    [][(last'.op = "cleanup_old_backups" /\ now' = now)
          => LET deleted == store \ store' IN
             /\ store' \subseteq store
             /\ \A e \in deleted :
                   /\ last'.filepath = NoPath \/ e.orig = last'.filepath
                   /\ e.ctime < cutoff_time'
             /\ ret' = Cardinality(deleted)
             /\ \A e \in store :
                   (/\ last'.filepath = NoPath \/ e.orig = last'.filepath
                    /\ e.ctime < cutoff_time'
                    /\ e.name \notin skipped'
                    /\ e.name \notin last'.stuck) => e \in deleted]_vars

(***************************************************************************)
(* Claims on FileReader.is_text_file (checked under SpecSniffer).          *)
(***************************************************************************)
\* C17: is_text_file(path) never raises and returns false for every path
\* that cannot be read (missing file, directory, permission denied),
\* whatever the extension of the path or its MIME guess.
C17_UnreadableIsNotText ==
    is_text.kind # "none"
        => /\ is_text.kind = "returned"
           /\ probe_file.kind # "file" => is_text.value = FALSE

\* the first SampleSize bytes of the probed file hold no NUL byte
NoNulInSample ==
    \A i \in 1..Len(probe_file.data) : i <= SampleSize => probe_file.data[i] # NUL

ProbeExt == lower(suffix(probe_path.name))
ProbeMime == guess_type(probe_path.name, mime_db)
IsTextMime(m) == m # NoMime /\ (m[1] = "text" \/ m \in TextMimeTypes)

\* C18 (as claimed): is_text_file is the four-step procedure: an extension
\* of the binary deny-list gives false; else an extension of the text
\* allow-list gives true; else a MIME guess of text/* or of an allowed
\* structured type gives true; else, also when the MIME guess is a known
\* type that is no text type, the content probe of the first 8 KiB decides
\* (for a readable file: a NUL byte gives false, otherwise a decoding
\* succeeds and the result is true).
C18_FourStepProcedure ==
    is_text.kind = "returned"
        => /\ ProbeExt \in BINARY_EXTENSIONS => is_text.value = FALSE
           /\ (ProbeExt \notin BINARY_EXTENSIONS /\ ProbeExt \in TEXT_EXTENSIONS)
                 => is_text.value = TRUE
           /\ (ProbeExt \notin BINARY_EXTENSIONS \cup TEXT_EXTENSIONS /\ IsTextMime(ProbeMime))
                 => is_text.value = TRUE
           /\ (/\ ProbeExt \notin BINARY_EXTENSIONS \cup TEXT_EXTENSIONS
               /\ ~IsTextMime(ProbeMime)
               /\ probe_file.kind = "file")
                 => is_text.value = NoNulInSample

\* C18 (amended): as above, but a guessed MIME type decides alone: text/*
\* or an allowed structured type gives true, any other guessed type gives
\* false without a probe; only without a MIME guess the content probe
\* decides: a file that cannot be opened gives false, a NUL byte in the
\* first 8 KiB gives false, anything else gives true.
C18_DecisionProcedure ==
    is_text.kind = "returned"
        => /\ ProbeExt \in BINARY_EXTENSIONS => is_text.value = FALSE
           /\ (ProbeExt \notin BINARY_EXTENSIONS /\ ProbeExt \in TEXT_EXTENSIONS)
                 => is_text.value = TRUE
           /\ (ProbeExt \notin BINARY_EXTENSIONS \cup TEXT_EXTENSIONS /\ ProbeMime # NoMime)
                 => is_text.value = IsTextMime(ProbeMime)
           /\ (ProbeExt \notin BINARY_EXTENSIONS \cup TEXT_EXTENSIONS /\ ProbeMime = NoMime)
                 => is_text.value = (probe_file.kind = "file" /\ NoNulInSample)

\* a readable file of plain text whose name has a known MIME type that is
\* no text type is answered with false
C18_Witness ==
    /\ is_text = Answer(FALSE)
    /\ ProbeExt \notin BINARY_EXTENSIONS \cup TEXT_EXTENSIONS
    /\ ProbeMime # NoMime
    /\ ~IsTextMime(ProbeMime)
    /\ probe_file.kind = "file"
    /\ probe_file.data = <<"a">>


(***************************************************************************)
(* Claims on CodeAssistant.analyze_project (checked under SpecScan).       *)
(***************************************************************************)
PathOf(e) == Path(project_root, e.name)

\* the name n matches one of the ignore rules: it ends like a "*..." rule
\* or is the name a rule spells out
MatchedByRules(n) ==
    \E r \in ignore_patterns :
        IF r # <<>> /\ Head(r) = "*"
        THEN /\ Len(n) >= Len(r) - 1
             /\ SubSeq(n, Len(n) - Len(r) + 2, Len(n)) = Tail(r)
        ELSE n = r

\* the enumerated entry e got through the ignore rules and the text sniffer
PassedFilters(e) ==
    ~MatchedByRules(e.name) /\ is_text_file(e.name, AsProbeFile(e), mime_db)

\* the path p is among the analysed files / the recorded errors
Analysed(p) == \E i \in 1..Len(analysis.files) : analysis.files[i].filepath = p
Recorded(p) == \E i \in 1..Len(analysis.errors) : analysis.errors[i].file = p

\* the aggregates are those of the analysed files
AggregatesOfFiles ==
    LET fs == analysis.files IN
    /\ analysis.total_files = Len(fs)
    /\ analysis.total_lines = sum([i \in 1..Len(fs) |-> fs[i].line_count])
    /\ \A l \in Range(Languages) :
          analysis.languages[l] = Cardinality({i \in 1..Len(fs) : fs[i].language = l})
    /\ Range(analysis.dependencies) = UNION {Range(fs[i].dependencies) : i \in 1..Len(fs)}

\* C19: a failure on one file never aborts the scan: every other enumerated
\* file that passes the filters is analysed, every file that fails is
\* recorded exactly once in errors, with its path and the message, and
\* counts in none of total_files, total_lines, languages, dependencies.
C19_FailuresIsolated ==
    analysis # NotRun =>
       /\ \A i \in 1..Len(files) :
             PassedFilters(files[i]) =>
                IF files[i].kind = "file" THEN Analysed(PathOf(files[i]))
                ELSE Recorded(PathOf(files[i])) /\ ~Analysed(PathOf(files[i]))
       /\ \A i, j \in 1..Len(analysis.errors) :
             analysis.errors[i].file = analysis.errors[j].file => i = j
       /\ \A i \in 1..Len(analysis.errors) : analysis.errors[i].error = "structure_analysis"
       /\ AggregatesOfFiles

Survivors ==
    {PathOf(files[i]) : i \in {k \in 1..Len(files) :
                                  files[k].kind = "file" /\ PassedFilters(files[k])}}

\* C29: analyze_project counts every surviving file once: total_files is
\* the number of distinct files that pass the filters and are analysed, it
\* is the length of the per-file list, and the language counts sum to at
\* most total_files, also when several include patterns match one file.
C29_SurvivorsCountedOnce ==
    analysis # NotRun =>
       /\ analysis.total_files = Cardinality(Survivors)
       /\ analysis.total_files = Len(analysis.files)
       /\ sum([i \in 1..Len(Languages) |-> analysis.languages[Languages[i]]])
             <= analysis.total_files

(***************************************************************************)
(* Claims on CodeAnalyzer (checked under SpecClassify).                    *)
(***************************************************************************)
\* the content the call works on: the argument, or what it reads of the file
ContentUsed == IF source.given THEN source.text ELSE read_sample(source.text)

\* the languages whose extension table holds the extension of the path
ExtensionHits ==
    {i \in 1..Len(Languages) : lower(suffix(source.name)) \in Extensions(Languages[i])}

\* the languages no other language outscores on the content
TopScorers ==
    {i \in 1..Len(Languages) :
        \A j \in 1..Len(Languages) :
            score(Languages[j], ContentUsed) <= score(Languages[i], ContentUsed)}

First(S) == CHOOSE i \in S : \A j \in S : i <= j

\* C21: detect_language follows the reference rule: a path whose extension
\* is in an extension table gets that language, whatever the content and
\* whether or not the file exists; otherwise the language with the highest
\* score (2 per pattern match, 1 per keyword occurrence) is returned, the
\* first in table order on a tie, and none when every score is zero.
C21_DetectLanguageRule ==
    classified.op = "detect_language" =>
        IF ExtensionHits # {}
        THEN /\ classified.result = Returned
             /\ classified.value = Languages[First(ExtensionHits)]
        ELSE (source.given \/ source.readable) =>
                /\ classified.result = Returned
                /\ classified.value =
                      IF \A i \in 1..Len(Languages) : score(Languages[i], ContentUsed) = 0
                      THEN NoLanguage
                      ELSE Languages[First(TopScorers)]

\* C21 witness: a path without extension and the content "import os", on
\* which python and java both score 3: python, the first of them, is returned
C21_Witness ==
    /\ classified.op = "detect_language"
    /\ source.name = <<"n">>
    /\ source.given
    /\ source.text = << <<"import", SP, "os">> >>
    /\ score("python", source.text) = 3
    /\ score("java", source.text) = 3
    /\ classified.value = "python"


\* the values the groups of the import patterns of lang capture in the text
Captures(lang, text) ==
    {dependency_group(lang, k, text[i]) :
        k \in 1..NumDependencyPatterns(lang), i \in 1..Len(text)} \ {NoMatch}

\* the list q is in ascending order and holds nothing twice
Ascending(q) == \A i, j \in 1..Len(q) : i < j => str_less(q[i], q[j])

\* the list of dependencies the call returns is that of the set S
ReturnsDependencies(S) ==
    /\ classified.result = Returned
    /\ Range(classified.value) =
          IF detect_language_call(source).value = NoLanguage THEN {} ELSE S
    /\ Ascending(classified.value)

\* C22 (as stated): extract_dependencies returns the values captured by the
\* import patterns of the detected language over the full content, without
\* those that start with ".", in ascending order and without duplicates,
\* and the empty list when no language is detected.
C22_DependenciesAreCaptures ==
    (classified.op = "extract_dependencies" /\ (source.given \/ source.readable)) =>
        ReturnsDependencies(
            {c \in Captures(detect_language_call(source).value, source.text) : Head(c) # "."})

\* C22 (amended): extract_dependencies returns the values captured by the
\* import patterns of the detected language over the full content, each
\* stripped of surrounding whitespace, without the empty ones and those
\* that start with ".", in ascending order and without duplicates, and the
\* empty list when no language is detected.
C22_DependenciesAreStrippedCaptures ==
    (classified.op = "extract_dependencies" /\ (source.given \/ source.readable)) =>
        ReturnsDependencies(
            {d \in {strip(c) : c \in Captures(detect_language_call(source).value, source.text)} :
                d # <<>> /\ Head(d) # "."})

\* C22 witness: a.js importing from ' os' and from '.os' has the one
\* dependency os
C22_Witness ==
    /\ classified.op = "extract_dependencies"
    /\ source.name = <<"a", ".", "j", "s">>
    /\ source.text = << <<"import", SP, "x", SP, "from", SP, "'", SP, "os", "'">>,
                        <<"import", SP, "x", SP, "from", SP, "'", ".", "os", "'">> >>
    /\ Captures("javascript", source.text) = {<<SP, "os">>, <<".", "os">>}
    /\ classified.result = Returned
    /\ classified.value = << <<"os">> >>


\* the lines of the text that start, after optional whitespace, with a def
\* declaration / a class declaration; the whitespace before it
DefLines(text) == {i \in 1..Len(text) : kw_word_then(text[i], "def", {"("})}
ClassLines(text) == {i \in 1..Len(text) : kw_word_then(text[i], "class", {"(", ":"})}
Indentation(L) == skip(L, 1) - 1

\* analyze_file_structure returned the analysis of Python content
PythonAnalysed ==
    /\ classified.op = "analyze_file_structure"
    /\ classified.result = Returned
    /\ classified.value.language = "python"

\* 'import os / import sys / def foo(): pass' at a.py is python with the
\* dependencies os and sys, 1 function and 0 classes
ScenarioAnalysed ==
    (/\ classified.op = "analyze_file_structure"
     /\ source.name = <<"a", ".", "p", "y">>
     /\ source.text = ScenarioText
     /\ source.given \/ source.readable) =>
        /\ classified.result = Returned
        /\ classified.value.language = "python"
        /\ classified.value.dependencies = << <<"os">>, <<"sys">> >>
        /\ classified.value.functions = 1
        /\ classified.value.classes = 0

\* C23 (as stated): for Python content functions is the number of def
\* declarations at top level and classes the number of class declarations at
\* top level, indented declarations not counted; the scenario holds.
C23_TopLevelDeclarations ==
    /\ PythonAnalysed =>
          /\ classified.value.functions =
                Cardinality({i \in DefLines(source.text) : Indentation(source.text[i]) = 0})
          /\ classified.value.classes =
                Cardinality({i \in ClassLines(source.text) : Indentation(source.text[i]) = 0})
    /\ ScenarioAnalysed

\* C23 (amended): for Python content functions is the number of def
\* declarations and classes the number of class declarations that start a
\* line after optional indentation, indented declarations such as methods
\* counted too; the scenario holds.
C23_DeclarationsAtLineStart ==
    /\ PythonAnalysed =>
          /\ classified.value.functions = Cardinality(DefLines(source.text))
          /\ classified.value.classes = Cardinality(ClassLines(source.text))
    /\ ScenarioAnalysed

\* C23 witness: a.py with a def in the first column and an indented def
\* is reported with 2 functions
C23_Witness ==
    /\ PythonAnalysed
    /\ source.name = <<"a", ".", "p", "y">>
    /\ source.text = << <<"def", SP, "foo", "(", ")", ":">>,
                        <<SP, "def", SP, "bar", "(", ")", ":">> >>
    /\ Indentation(source.text[2]) = 1
    /\ classified.value.functions = 2
    /\ classified.value.classes = 0


(***************************************************************************)
(* Claims on CodeAssistant.process_instruction (checked under              *)
(* SpecInstruct).                                                          *)
(***************************************************************************)
\* C24: no raw exception escapes process_instruction: a call that fails
\* raises CodeAssistantError, and for an instruction that is no string the
\* text of the exception, str(e), holds UNEXPECTED_ERROR.
C24_UnexpectedErrorReported ==
    (instr.pc = "done" /\ instr.result.kind = "raised") =>
        /\ instr.result.type = "CodeAssistantError"
        /\ instr.instruction = "not_a_string" =>
              \E i \in 1..Len(str(instr.result)) : str(instr.result)[i] = "UNEXPECTED_ERROR"

\* the steps of a call with a target file that reaches the write
StepsToWrite == <<"validate", "context", "request", "capability", "generate", "apply", "write">>

\* C28: the target of process_instruction is modified only by the last
\* step, after the validation, the capability check and a response of the
\* provider, and, when create_backup is set and the target exists, with a
\* backup of its content in the store; a call with a target that ends
\* before the write raises and leaves the target as it was.
C28_TargetModifiedLast ==
    [][/\ disk' # disk =>
             /\ instr.pc = "write"
             /\ instr'.pc = "done"
             /\ instr.steps = StepsToWrite
             /\ instr.provider_calls = 1
             /\ \A f \in disk' \ disk : f.path = TargetPath(instr.target_file)
             /\ (instr.create_backup /\ instr.before.ex) =>
                   \E e \in store :
                       /\ e.name = applying.backup
                       /\ e.data = Read(disk, TargetPath(instr.target_file))
       /\ (/\ instr'.pc = "done"
           /\ instr' # instr
           /\ instr'.target_file # NoPath
           /\ instr'.steps # StepsToWrite) =>
             /\ instr'.result.kind = "raised"
             /\ FileAt(disk', TargetPath(instr'.target_file)) = instr'.before]_vars

\* C28 witness: a call with create_backup on an existing target returned:
\* the target holds the generated content and the store a backup of the
\* content the target had
C28_Witness ==
    /\ instr.pc = "done"
    /\ instr.result = ResultReturned
    /\ instr.steps = StepsToWrite
    /\ instr.create_backup
    /\ instr.before.ex
    /\ instr.before.data # TextWrite(instr.generated, osName)
    /\ FileAt(disk, TargetPath(instr.target_file)) = File(TextWrite(instr.generated, osName))
    /\ \E e \in store : e.name = applying.backup /\ e.data = instr.before.data

\* C30: a call with an empty or whitespace-only instruction raises
\* CodeAssistantError with the code EMPTY_INSTRUCTION; the provider is not
\* called, no backup is made and no file is changed.
C30_EmptyInstructionRejected ==
    [][(instr' # instr /\ instr'.instruction = "blank") =>
          /\ instr'.pc = "done"
          /\ instr'.result.kind = "raised"
          /\ instr'.result.type = "CodeAssistantError"
          /\ instr'.result.code = "EMPTY_INSTRUCTION"
          /\ instr'.provider_calls = 0
          /\ store' = store
          /\ disk' = disk]_vars


(***************************************************************************)
(* Claims on the retention of the backup store (_cleanup_old_backups).     *)
(***************************************************************************)
\* C25: the retention that create_backup(p) runs deletes only backups made
\* of p: a backup made of another path (also of a file of the same name in
\* another directory) that the copy did not write to is in the store, as
\* it was, after the call.
C25_RetentionOnlyOwnBackups ==
    [][(/\ last'.op = "create_backup"
        /\ copies' = copies + 1
        /\ last'.result = Returned) =>
          \A e \in store :
              (e.orig # last'.filepath /\ e.name # last'.backup) => e \in store']_vars


\* create_backup returned: the copy was made and retention ran
RetentionRan ==
    /\ last'.op = "create_backup"
    /\ copies' = copies + 1
    /\ last'.result = Returned

\* the store between the copy and the retention
AfterCopy == {e \in store : e.name # last'.backup} \cup {e \in store' : e.name = last'.backup}

\* the backups retention finds for the path, and those beyond the
\* max_backups newest of them
Found == {e \in AfterCopy : infer_original_path(e.name) = last'.filepath}
Surplus == {e \in Found : Cardinality({o \in Found : o.ctime > e.ctime}) >= max_backups}

\* the time of the backup retention tried to unlink in place i
AttemptedTime(i) == (CHOOSE e \in AfterCopy : e.name = last'.attempted[i]).ctime

\* all surplus backups are tried, whether an unlink fails or not, and the
\* max_backups newest are kept
AttemptsAllSurplus ==
    /\ Len(last'.attempted) = Cardinality(Surplus)
    /\ Range(last'.attempted) = StoreNames(Surplus)
    /\ last'.stuck \subseteq StoreNames(Surplus)
    /\ store' = {e \in AfterCopy : e \notin Surplus \/ e.name \in last'.stuck}

\* C26: retention unlinks the backups beyond the cap oldest first, tries
\* every one of them also after an unlink that failed, and keeps the
\* max_backups newest.
C26_SurplusOldestFirst ==
    [][RetentionRan =>
          /\ AttemptsAllSurplus
          /\ \A i, j \in 1..Len(last'.attempted) :
                i < j => AttemptedTime(i) < AttemptedTime(j)]_vars

\* C26 as the code has it: retention unlinks the backups beyond the cap
\* newest first, tries every one of them also after an unlink that failed,
\* and keeps the max_backups newest.
C26_SurplusNewestFirst ==
    [][RetentionRan =>
          /\ AttemptsAllSurplus
          /\ \A i, j \in 1..Len(last'.attempted) :
                i < j => AttemptedTime(i) > AttemptedTime(j)]_vars

\* C26 witness: retention found two backups beyond the cap; the unlink of
\* the first failed, the second was unlinked all the same
C26_Witness ==
    /\ last.op = "create_backup"
    /\ last.result = Returned
    /\ Len(last.attempted) >= 2
    /\ last.attempted[1] \in last.stuck
    /\ last.attempted[2] \notin StoreNames(store)
    /\ last.backup \in StoreNames(store)


(***************************************************************************)
(* Claims on the sibling backup of FileWriter.write_file (SpecWriter).     *)
(***************************************************************************)
\* the sibling name i is the one the pre-write backup has to take:
\* filepath+backup_suffix (i = 0) if it is free, else the first numeric
\* suffix that is free
FirstFreeName(i) == ~siblings[i].ex /\ \A j \in 0..(i - 1) : siblings[j].ex

\* C27: the pre-write backup of write_file is made at filepath+backup_suffix
\* or, when that name is taken, at the first free numeric suffix; a sibling
\* file that exists is changed by no step but the removal or the move back
\* of the backup the running call made itself, so a file that was at a
\* sibling name before the call is as it was after it.
C27_SiblingsPreserved ==
    [][/\ backup_path' # backup_path =>
             \/ pc = "idle" /\ backup_path' = None
             \/ /\ pc = "backup"
                /\ FirstFreeName(backup_path')
                /\ siblings' = [siblings EXCEPT ![backup_path'] = target]
       /\ \A i \in SiblingIdx :
             siblings'[i] # siblings[i] =>
                \/ pc = "backup" /\ FirstFreeName(i)
                \/ /\ pc \in {"restore", "cleanup"}
                   /\ backup_path = i
                   /\ ~siblings'[i].ex]_vars

\* C27 witness: filepath+backup_suffix was taken by an older file, the
\* backup went to the first numeric suffix, the write committed, and the
\* older file is as it was
C27_Witness ==
    /\ pc = "done"
    /\ result = Returned
    /\ backup_path = 1
    /\ siblings[0] = File(<<"s">>)
    /\ ~siblings[1].ex
    /\ prior.ex
    /\ target = File(TextWrite(content, osName))

====
